---- MODULE Spec2Model ----
(***************************************************************************)
(* A model of the KYC form extractor: the regex pattern catalogue of       *)
(* DataParser (src/data_parser.py), _extract_field, the address section    *)
(* segmenter, the per-field normalizers and validators, and parse_data.    *)
(*                                                                         *)
(* Texts are strings and the rules are the regular expressions of the      *)
(* catalogue, written as syntax trees and run by a backtracking matcher    *)
(* with the meaning of re.search(pattern, text, re.IGNORECASE |            *)
(* re.MULTILINE).  The catalogue below holds the fields that the checked   *)
(* properties are about; every rule list that is present is complete and   *)
(* in declaration order.                                                   *)
(***************************************************************************)
EXTENDS Integers, Sequences, FiniteSets, TLC

VARIABLES
  strictFlags,        \* the build: TRUE when re rejects an inline flag that is not at the start (Python >= 3.11)
  \* ---- one call of _extract_field (FieldSpec)
  ef_text,            \* text
  ef_field,           \* the catalogue key whose rule list is patterns
  ef_k,               \* index of the next pattern of the for loop
  ef_pc,              \* "loop" | "done" | "error"
  ef_ret,             \* the returned value, a one-element sequence, or << >> for None
  ef_tried,           \* the indices of the patterns handed to re.search, in order
  ef_caught,          \* the indices of the patterns whose exception was swallowed
  \* ---- the line loop of _extract_address_info (SegSpec)
  text_lines,         \* text.split('\n')
  seg_i,              \* index of the next line of the for loop
  in_current,
  in_permanent,
  current_section,    \* the numbers of the lines appended to current_section, in order
  permanent_section,  \* the numbers of the lines appended to permanent_section, in order
  seg_last,           \* the branch the last iteration took
  \* ---- citizenship validation of _extract_basic_info (CitSpec)
  cit_raw,            \* the value returned by _extract_field
  cit_pc,             \* "call" | "done"
  cit_data,           \* data after the citizenship block
  \* ---- _validate_family_names (FamSpec)
  family_data,        \* the argument, mutated in place
  fam_pc,             \* "warn" | "spouse_father" | "spouse_mother" | "return" | "raised"
  fam_warned,         \* st.warning calls
  \* ---- parse_data (Spec)
  text,               \* the argument
  pc,                 \* the statement parse_data is at
  parsed_data,        \* the local parsed_data
  fam_arg,            \* the local family_data
  result,             \* the returned record
  errors,             \* st.error calls
  warnings,           \* st.warning calls
  propagated,         \* TRUE when an exception left parse_data
  \* ---- passes of parse_data that share one DataParser (PassSpec)
  self_patterns,      \* the keys that self.patterns holds
  p_text,             \* each pass's argument
  p_pc,               \* the statement each pass is at
  p_slot,             \* the records that parsed_data of the passes names
  p_fam,              \* each pass's local family_data
  p_result,           \* the record each pass returned
  p_after,            \* each pass: TRUE when its first step came after the other's return
  \* ---- the gender block of _extract_basic_info (GenderSpec)
  gen_raw,            \* what _extract_field returned: <<value>>, or << >> for None
  gen_pc,             \* "block" | "done"
  gen_data,           \* the dict data
  \* ---- FormFiller._prepare_field_updates (FillSpec)
  fu_parsed_data,     \* the argument parsed_data
  fu_pc,              \* the block _prepare_field_updates is at
  field_updates,      \* the local field_updates; the returned dict once fu_pc = "done"
  \* ---- the batch loop of main (BatchSpec)
  source_files,       \* the uploaded documents, in upload order
  data_parser,        \* data_parser = DataParser(): what its parse_data returns for each text of the batch
  b_i,                \* the position of the document the loop is at
  b_pc,               \* the statement of the loop body
  extracted_text,     \* the local extracted_text
  b_parsed_data,      \* the local parsed_data
  processed_files,    \* st.session_state.processed_files
  status_log,         \* the documents named by status_text.text("Processing ...")
  error_log           \* the documents named by st.error calls of the loop

vars == <<strictFlags, ef_text, ef_field, ef_k, ef_pc, ef_ret, ef_tried, ef_caught,
          text_lines, seg_i, in_current, in_permanent, current_section, permanent_section, seg_last,
          cit_raw, cit_pc, cit_data, family_data, fam_pc, fam_warned,
          text, pc, parsed_data, fam_arg, result, errors, warnings, propagated,
          self_patterns, p_text, p_pc, p_slot, p_fam, p_result, p_after,
          gen_raw, gen_pc, gen_data, fu_parsed_data, fu_pc, field_updates,
          source_files, data_parser, b_i, b_pc, extracted_text, b_parsed_data, processed_files,
          status_log, error_log>>

efVars == <<ef_text, ef_field, ef_k, ef_pc, ef_ret, ef_tried, ef_caught>>
segVars == <<text_lines, seg_i, in_current, in_permanent, current_section, permanent_section, seg_last>>
citVars == <<cit_raw, cit_pc, cit_data>>
famVars == <<family_data, fam_pc, fam_warned>>
parseVars == <<text, pc, parsed_data, fam_arg, result, errors, warnings, propagated>>
passVars == <<self_patterns, p_text, p_pc, p_slot, p_fam, p_result, p_after>>
genVars == <<gen_raw, gen_pc, gen_data>>
fillVars == <<fu_parsed_data, fu_pc, field_updates>>
batchVars == <<source_files, data_parser, b_i, b_pc, extracted_text, b_parsed_data, processed_files,
               status_log, error_log>>

-----------------------------------------------------------------------------
(* Characters and the str methods the parser uses.                         *)

UpperStr == "ABCDEFGHIJKLMNOPQRSTUVWXYZ"
LowerStr == "abcdefghijklmnopqrstuvwxyz"
DigitStr == "0123456789"

Chars(str) == {SubSeq(str, i, i) : i \in 1..Len(str)}

Range(f) == {f[k] : k \in DOMAIN f}

LowerOf == [c \in Chars(UpperStr) |->
              LET i == CHOOSE k \in 1..Len(UpperStr) : SubSeq(UpperStr, k, k) = c
              IN SubSeq(LowerStr, i, i)]

UpperOf == [c \in Chars(LowerStr) |->
              LET i == CHOOSE k \in 1..Len(LowerStr) : SubSeq(LowerStr, k, k) = c
              IN SubSeq(UpperStr, i, i)]

\* Body with its parameter bound to the value v: a local name for a value
Let(v, Body(_)) == Body(v)

\* the string F(lo) \o ... \o F(hi), and the sequence F(lo) \o ... \o F(hi)
RECURSIVE ConcatStr(_, _, _)
ConcatStr(F(_), lo, hi) ==
  IF lo > hi THEN ""
  ELSE IF lo = hi THEN F(lo)
  ELSE LET mid == (lo + hi) \div 2 IN ConcatStr(F, lo, mid) \o ConcatStr(F, mid + 1, hi)

RECURSIVE Concat(_, _, _)
Concat(F(_), lo, hi) ==
  IF lo > hi THEN <<>>
  ELSE IF lo = hi THEN F(lo)
  ELSE LET mid == (lo + hi) \div 2 IN Concat(F, lo, mid) \o Concat(F, mid + 1, hi)

\* F(n) for the least n in lo..hi for which it is not << >>, or << >>
RECURSIVE First(_, _, _)
First(F(_), lo, hi) ==
  IF lo > hi THEN <<>>
  ELSE IF lo = hi THEN F(lo)
  ELSE Let(First(F, lo, (lo + hi) \div 2),
           LAMBDA left : IF left # <<>> THEN left ELSE First(F, (lo + hi) \div 2 + 1, hi))

At(s, i) == SubSeq(s, i, i)

lower(s) ==
  ConcatStr(LAMBDA i : IF At(s, i) \in DOMAIN LowerOf THEN LowerOf[At(s, i)] ELSE At(s, i), 1, Len(s))

upper(s) ==
  ConcatStr(LAMBDA i : IF At(s, i) \in DOMAIN UpperOf THEN UpperOf[At(s, i)] ELSE At(s, i), 1, Len(s))

Alpha == Chars(LowerStr)
Digit == Chars(DigitStr)
Space == {" ", "\n", "\t", "\r", "\f"}
ColonSpace == Space \cup {":"}

\* s without its leading and trailing characters of the set cs
stripChars(s, cs) ==
  Let({i \in 1..Len(s) : At(s, i) \notin cs},
      LAMBDA inner : IF inner = {} THEN ""
                     ELSE SubSeq(s, CHOOSE i \in inner : \A j \in inner : i <= j,
                                    CHOOSE i \in inner : \A j \in inner : j <= i))

\* s.strip()
strip(s) == stripChars(s, Space)

\* re.sub(r'\s+', ' ', s) and re.sub(r'\s+', '', s)
collapseSpace(s) ==
  ConcatStr(LAMBDA i : IF At(s, i) \notin Space THEN At(s, i)
                       ELSE IF i > 1 /\ At(s, i - 1) \in Space THEN "" ELSE " ", 1, Len(s))

removeSpace(s) == ConcatStr(LAMBDA i : IF At(s, i) \in Space THEN "" ELSE At(s, i), 1, Len(s))

\* s.replace(old, new)
RECURSIVE replace(_, _, _)
replace(s, old, new) ==
  Let(First(LAMBDA j : IF SubSeq(s, j + 1, j + Len(old)) = old THEN <<j>> ELSE <<>>,
            0, Len(s) - Len(old)),
      LAMBDA i : IF i = <<>> THEN s
                 ELSE SubSeq(s, 1, i[1]) \o new
                        \o replace(SubSeq(s, i[1] + Len(old) + 1, Len(s)), old, new))

\* s.split('\n')
splitLines(s) ==
  Let(SelectSeq([i \in 1..Len(s) |-> i], LAMBDA i : At(s, i) = "\n"),
      LAMBDA nl : [k \in 1..(Len(nl) + 1) |->
                     SubSeq(s, (IF k = 1 THEN 0 ELSE nl[k - 1]) + 1,
                               (IF k > Len(nl) THEN Len(s) + 1 ELSE nl[k]) - 1)])

\* dicts: functions from keys to values
put(d, k, v) == [x \in DOMAIN d \cup {k} |-> IF x = k THEN v ELSE d[x]]
del(d, k) == [x \in DOMAIN d \ {k} |-> d[x]]
update(d, e) == [x \in DOMAIN d \cup DOMAIN e |-> IF x \in DOMAIN e THEN e[x] ELSE d[x]]

\* the least i >= 0 with s[i+1 .. i+Len(sub)] = sub, or -1: str.find
findFrom(s, sub, i) ==
  Let(First(LAMBDA j : IF SubSeq(s, j + 1, j + Len(sub)) = sub THEN <<j>> ELSE <<>>,
            i, Len(s) - Len(sub)),
      LAMBDA hit : IF hit = <<>> THEN 0 - 1 ELSE hit[1])

\* sub in s
contains(s, sub) == findFrom(s, sub, 0) >= 0

\* s.split(sep)[0]
splitHead(s, sep) == Let(findFrom(s, sep, 0), LAMBDA i : IF i < 0 THEN s ELSE SubSeq(s, 1, i))

startswith(s, p) == Len(p) <= Len(s) /\ SubSeq(s, 1, Len(p)) = p

endswith(s, p) == Len(p) <= Len(s) /\ SubSeq(s, Len(s) - Len(p) + 1, Len(s)) = p

\* '\n'.join(lines)
join(ls) == ConcatStr(LAMBDA i : IF i = 1 THEN ls[i] ELSE "\n" \o ls[i], 1, Len(ls))

\* the characters of s that are in keep, in order: re.sub(r'[^...]', '', s)
keepChars(s, keep) == ConcatStr(LAMBDA i : IF At(s, i) \in keep THEN At(s, i) ELSE "", 1, Len(s))

-----------------------------------------------------------------------------
(* Regular expressions.  A node is a record tagged by t; Ends(r, s, i) is  *)
(* the sequence of the positions at which a match of r that starts after   *)
(* the first i characters of s can end, in the order in which a            *)
(* backtracking matcher tries them.  Matching is case-insensitive: the     *)
(* text is matched in lower case, literals are held in lower case and the  *)
(* letter classes hold the lower-case letters.                             *)

Lit(str) == [t |-> "lit", s |-> lower(str)]
\* a literal of a pattern that is matched without re.IGNORECASE
ExactLit(str) == [t |-> "lit", s |-> str]
Cls(set) == [t |-> "cls", c |-> set, neg |-> FALSE]
NotCls(set) == [t |-> "cls", c |-> set, neg |-> TRUE]
Cat(seq) == [t |-> "seq", a |-> seq]
Alt(seq) == [t |-> "alt", a |-> seq]
Inf == 0 - 1
Rep(r, lo, hi) == [t |-> "rep", r |-> r, lo |-> lo, hi |-> hi, lazy |-> FALSE]
LazyRep(r, lo, hi) == [t |-> "rep", r |-> r, lo |-> lo, hi |-> hi, lazy |-> TRUE]
Star(r) == Rep(r, 0, Inf)
Plus(r) == Rep(r, 1, Inf)
Opt(r) == Rep(r, 0, 1)
LazyStar(r) == LazyRep(r, 0, Inf)
LazyPlus(r) == LazyRep(r, 1, Inf)
Ahead(r) == [t |-> "look", r |-> r, neg |-> FALSE]
NotAhead(r) == [t |-> "look", r |-> r, neg |-> TRUE]
\* (?<!r) for an r that matches exactly w characters
NotBehind(r, w) == [t |-> "lookb", r |-> r, w |-> w]
Eol == [t |-> "eol"]     \* $ under re.MULTILINE
Bol == [t |-> "bol"]     \* ^ under re.MULTILINE
Eos == [t |-> "eos"]     \* $ without re.MULTILINE
Dot == NotCls({"\n"})
WordB == [t |-> "wordb"]   \* \b
Empty == Cat(<<>>)
\* \w
IsWord(c) == c \in Alpha \cup Chars(UpperStr) \cup Digit \cup {"_"}

\* the end of the longest run of characters of the class c that starts after i characters
RunEnd(c, s, i) ==
  First(LAMBDA j : IF j = Len(s) \/ ((At(s, j + 1) \in c.c) = c.neg) THEN <<j>> ELSE <<>>, i, Len(s))[1]

\* the ends of lo to hi repetitions of the one-character class c, longest first or (lazy) shortest first
ClassRepEnds(r, s, i) ==
  Let(RunEnd(r.r, s, i),
      LAMBDA run :
        Let(IF r.hi # Inf /\ i + r.hi < run THEN i + r.hi ELSE run,
            LAMBDA last :
              IF last - (i + r.lo) + 1 <= 0 THEN <<>>
              ELSE [k \in 1..(last - (i + r.lo) + 1) |->
                      IF r.lazy THEN i + r.lo + k - 1 ELSE last - k + 1]))

RECURSIVE Ends(_, _, _), SeqEnds(_, _, _, _), AltEnds(_, _, _, _), RepEnds(_, _, _, _)

Ends(r, s, i) ==
  CASE r.t = "lit" ->
         IF i + Len(r.s) <= Len(s) /\ SubSeq(s, i + 1, i + Len(r.s)) = r.s
         THEN <<i + Len(r.s)>> ELSE <<>>
    [] r.t = "cls" ->
         IF i < Len(s) /\ ((SubSeq(s, i + 1, i + 1) \in r.c) # r.neg) THEN <<i + 1>> ELSE <<>>
    [] r.t = "seq" -> SeqEnds(r.a, 1, s, <<i>>)
    [] r.t = "alt" -> AltEnds(r.a, 1, s, i)
    [] r.t = "rep" -> IF r.r.t = "cls" THEN ClassRepEnds(r, s, i) ELSE RepEnds(r, s, i, 0)
    [] r.t = "look" -> IF (Ends(r.r, s, i) # <<>>) # r.neg THEN <<i>> ELSE <<>>
    [] r.t = "lookb" ->
         IF i >= r.w /\ i \in Range(Ends(r.r, s, i - r.w)) THEN <<>> ELSE <<i>>
    [] r.t = "eol" -> IF i = Len(s) \/ SubSeq(s, i + 1, i + 1) = "\n" THEN <<i>> ELSE <<>>
    [] r.t = "bol" -> IF i = 0 \/ SubSeq(s, i, i) = "\n" THEN <<i>> ELSE <<>>
    [] r.t = "wordb" ->
         IF (i > 0 /\ IsWord(At(s, i))) # (i < Len(s) /\ IsWord(At(s, i + 1))) THEN <<i>> ELSE <<>>
    [] r.t = "eos" ->
         IF i = Len(s) \/ (i = Len(s) - 1 /\ SubSeq(s, i + 1, i + 1) = "\n") THEN <<i>> ELSE <<>>

SeqEnds(a, k, s, ps) ==
  IF k > Len(a) \/ ps = <<>> THEN ps
  ELSE SeqEnds(a, k + 1, s, Concat(LAMBDA n : Ends(a[k], s, ps[n]), 1, Len(ps)))

AltEnds(a, k, s, i) ==
  IF k > Len(a) THEN <<>> ELSE Ends(a[k], s, i) \o AltEnds(a, k + 1, s, i)

\* the ends of r.lo to r.hi repetitions of r.r, n of them already matched
RepEnds(r, s, i, n) ==
  Let(IF r.hi # Inf /\ n >= r.hi THEN <<>> ELSE SelectSeq(Ends(r.r, s, i), LAMBDA e : e > i),
      LAMBDA step :
        Let(Concat(LAMBDA k : RepEnds(r, s, step[k], n + 1), 1, Len(step)),
            LAMBDA more :
              IF n < r.lo THEN more ELSE IF r.lazy THEN <<i>> \o more ELSE more \o <<i>>))

(* A pattern is a sequence of top-level alternatives, each the prefix pre, *)
(* the capture group 1 cap and the rest post (grp = FALSE: the alternative *)
(* has no group and is pre alone).  bad: re.compile rejects the pattern.   *)
(* iflag: the pattern holds (?i) after its start.                          *)
Pat(pre, cap, post) ==
  [alts |-> <<[pre |-> pre, cap |-> cap, post |-> post, grp |-> TRUE]>>, bad |-> FALSE, iflag |-> FALSE]

PatFlag(pre, cap, post) ==
  [alts |-> <<[pre |-> pre, cap |-> cap, post |-> post, grp |-> TRUE]>>, bad |-> FALSE, iflag |-> TRUE]

PatBad == [alts |-> <<>>, bad |-> TRUE, iflag |-> FALSE]

\* bare | pre(cap)post : the first alternative has no group
PatBareOr(bare, pre, cap, post) ==
  [alts |-> <<[pre |-> bare, cap |-> Empty, post |-> Empty, grp |-> FALSE],
              [pre |-> pre, cap |-> cap, post |-> post, grp |-> TRUE]>>,
   bad |-> FALSE, iflag |-> FALSE]

\* the group of alternative a when its prefix ends after j characters: <<j, k>> for the
\* first end k of the group, in matching order, after which a.post matches
FirstCap(a, s, j) ==
  Let(Ends(a.cap, s, j),
      LAMBDA ks : First(LAMBDA n : IF Ends(a.post, s, ks[n]) # <<>> THEN <<j, ks[n]>> ELSE <<>>,
                        1, Len(ks)))

\* the match of alternative a that starts after i characters: << >> (none), <<j, k>>
\* (group 1 is s[j+1..k]) or <<-1>> (a match in which group 1 took no part)
AltAt(a, s, i) ==
  Let(Ends(a.pre, s, i),
      LAMBDA js : IF a.grp THEN First(LAMBDA m : FirstCap(a, s, js[m]), 1, Len(js))
                  ELSE IF js # <<>> THEN <<0 - 1>> ELSE <<>>)

\* the match that starts after i characters, the alternatives tried in order
MatchAt(p, s, i) == First(LAMBDA n : AltAt(p.alts[n], s, i), 1, Len(p.alts))

\* the leftmost match that starts after i or more characters
SearchFrom(p, s, i) == First(LAMBDA j : MatchAt(p, s, j), i, Len(s))

\* re.search(pattern, text, re.IGNORECASE | re.MULTILINE), then match.group(1):
\* [m |-> "none"], [m |-> "nogroup"] or [m |-> "group", v |-> the captured text]
Search(p, txt) ==
  Let(SearchFrom(p, lower(txt), 0),
      LAMBDA c : IF c = <<>> THEN [m |-> "none"]
                 ELSE IF Len(c) = 1 THEN [m |-> "nogroup"]
                 ELSE [m |-> "group", v |-> SubSeq(txt, c[1] + 1, c[2])])

\* re.match(r, s) with no flags, as a truth value
Match(r, s) == Ends(r, s, 0) # <<>>

-----------------------------------------------------------------------------
(* The pattern catalogue self.patterns (DataParser.__init__).              *)

AlphaSpace == Alpha \cup Space
WordChars == Alpha \cup Digit \cup {"_"} \cup Space
Lits(strs) == [k \in DOMAIN strs |-> Lit(strs[k])]
\* (?=\s*(?:a|b|...))
Before(alts) == Ahead(Cat(<<Star(Cls(Space)), Alt(alts)>>))
\* (?=\s*(?:a|b|...|$|\n))
BeforeOrEol(strs) == Before(Lits(strs) \o <<Eol, Lit("\n")>>)
Sp == Cls(Space)
Cs == Cls(ColonSpace)
\* \'?s?
AposS == Cat(<<Opt(Lit("'")), Opt(Lit("s"))>>)
\* \'s?
AposThenS == Cat(<<Lit("'"), Opt(Lit("s"))>>)
\* ([A-Z][A-Z\s]+?)
NameLazy == Cat(<<Cls(Alpha), LazyPlus(Cls(AlphaSpace))>>)
\* ([A-Z][A-Z\s]+)
NameGreedy == Cat(<<Cls(Alpha), Plus(Cls(AlphaSpace))>>)
\* (\d{4}-\d{2}-\d{2})
DateCap == Cat(<<Rep(Cls(Digit), 4, 4), Lit("-"), Rep(Cls(Digit), 2, 2), Lit("-"), Rep(Cls(Digit), 2, 2)>>)
\* (\d+)
Digits == Plus(Cls(Digit))

name_rules ==
  <<Pat(Cat(<<Lit("Name"), Plus(Cs)>>), NameLazy,
        BeforeOrEol(<<"Date of Birth", "Gender", "Father", "Mother", "Occupation">>)),
    Pat(Cat(<<Lit("gfd"), Plus(Cs)>>), NameLazy, BeforeOrEol(<<"hGd ldlt", "ln·">>)),
    Pat(Cat(<<Lit("Name (In Block Letter)"), Plus(Cs)>>), NameLazy,
        BeforeOrEol(<<"Date of Birth", "Gender">>))>>

date_of_birth_rules ==
  <<Pat(Cat(<<Lit("Date of Birth"), Plus(Cs), Lit("AD"), Star(Cs)>>), DateCap, Empty),
    Pat(Cat(<<Lit("AD"), Star(Cs), Lit(":"), Star(Sp)>>), DateCap, Empty),
    Pat(Cat(<<Lit("hGd ldlt"), Plus(Cs), Lit("O{="), Star(Cs)>>), DateCap, Empty)>>

gender_rules ==
  <<Pat(Cat(<<Lit("Gender"), Plus(Cs)>>), Cls({"m", "f"}), BeforeOrEol(<<"Nationality", "Citizenship">>)),
    Pat(Cat(<<Lit("ln·"), Plus(Cs)>>), Cls({"m", "f"}), BeforeOrEol(<<"/fli6«otf", "gful/stf">>))>>

\* (?=\s*(?:Issue|District|hf/L|lhNnf))
CitizenshipAhead == Before(Lits(<<"Issue", "District", "hf/L", "lhNnf">>))

citizenship_no_rules ==
  <<Pat(Cat(<<Lit("Citizenship No"), Opt(Cls({".", ":"})), Star(Sp)>>), Digits, CitizenshipAhead),
    Pat(Cat(<<Lit("Citizenship Number"), Star(Cs)>>), Digits, CitizenshipAhead),
    Pat(Cat(<<Lit("gful/stf gDa/"), Star(Cs)>>), Digits, CitizenshipAhead),
    Pat(Cat(<<Lit("gful/stf "), Plus(Lit("g")), Lit("="), Star(Cs)>>), Digits, CitizenshipAhead),
    Pat(Cat(<<Lit("Citizenship"), Star(Cs)>>), Digits, CitizenshipAhead),
    Pat(Cat(<<NotBehind(Cat(<<Lit("Date"), Sp>>), 5), NotBehind(Cat(<<Lit("Birth"), Sp>>), 6)>>),
        Rep(Cls(Digit), 3, 6), CitizenshipAhead)>>

\* [A-Z0-9]{9,12}
PanCap == Rep(Cls(Alpha \cup Digit), 9, 12)

\* the lazy [\s\S]{0,100}?
UpTo100 == LazyRep(NotCls({}), 0, 100)

\* (?=\s*(?:Issue\s+Date|Beneficiary|$|\n))
BeforeIssueDate ==
  Before(<<Cat(<<Lit("Issue"), Plus(Sp), Lit("Date")>>), Lit("Beneficiary"), Eol, Lit("\n")>>)

beneficiary_id_rules ==
  <<Pat(Cat(<<Lit("Beneficiary ID No"), Opt(Cls({".", ":"})), Star(Sp)>>), Digits, Empty),
    Pat(Cat(<<Lit("Beneficiary ID Number"), Star(Cs)>>), Digits, Empty),
    Pat(Cat(<<Lit("Beneficiary"), LazyStar(Dot), Lit("ID"), LazyStar(Dot)>>), Digits, Empty),
    Pat(Cat(<<Lit("ID"), LazyStar(Dot), Lit("No"), Opt(Cls({".", ":"})), Star(Sp)>>), Digits, Empty),
    PatBareOr(Lit("lxtu"),
              Cat(<<Lit("fxL"), LazyStar(Dot), Lit("vftf "), Plus(Lit("g")), Lit("="), Star(Cs)>>),
              Digits, Empty),
    PatBareOr(Lit("lxtu"), Cat(<<Lit("fxL"), LazyStar(Dot)>>), Digits, Empty),
    Pat(Cat(<<Lit("Beneficiary"), LazyStar(Dot)>>), Digits, Empty)>>

pan_no_rules ==
  <<Pat(Cat(<<Lit("Permanent Account No"), Opt(Cls({".", ":"})), Star(Sp), Lit("(PAN)"), Star(Cs)>>),
        PanCap, Empty),
    Pat(Cat(<<Lit("PAN"), Star(Cs)>>), PanCap,
        NotAhead(Cat(<<Star(Sp), Alt(Lits(<<"ies", "No", "Number">>))>>))),
    Pat(Cat(<<Lit(":yfoL n]vf "), Plus(Lit("g")), Lit("="), Star(Cs)>>), PanCap, Empty)>>

issue_district_rules ==
  <<Pat(Cat(<<Lit("Citizenship"), Plus(Sp), Lit("Details"), UpTo100,
              Lit("Issue"), Plus(Sp), Lit("District"), Star(Cs)>>),
        LazyPlus(Cls(AlphaSpace)), BeforeIssueDate),
    Pat(Cat(<<Lit("Issue"), Plus(Sp), Lit("District"), Star(Cs)>>),
        LazyPlus(Cls(AlphaSpace)), BeforeIssueDate)>>

issue_date_rules ==
  <<Pat(Cat(<<Lit("Issue Date"), Plus(Sp)>>), DateCap, Empty),
    Pat(Cat(<<Lit("hf/L ldlt"), Star(Cs)>>), DateCap, Empty)>>

national_id_rules ==
  <<Pat(Cat(<<Lit("National ID No"), Opt(Cls({".", ":"})), Star(Sp)>>), Digits, Empty),
    Pat(Cat(<<Lit("National ID Number"), Star(Cs)>>), Digits, Empty),
    Pat(Cat(<<Lit("/fli6«o kl/ro kq "), Plus(Lit("g")), Lit("="), Star(Cs)>>), Digits, Empty)>>

\* (?:^|\n)(?!.*Permanent)(?!.*Temporary).*?
OtherLine ==
  Cat(<<Alt(<<Bol, Lit("\n")>>), NotAhead(Cat(<<Star(Dot), Lit("Permanent")>>)),
        NotAhead(Cat(<<Star(Dot), Lit("Temporary")>>)), LazyStar(Dot)>>)

\* Current\s+Address[:\s]*.*?
AfterCurrent == Cat(<<Lit("Current"), Plus(Sp), Lit("Address"), Star(Cs), LazyStar(Dot)>>)

current_country_rules ==
  <<Pat(Cat(<<AfterCurrent, Lit("Country"), Star(Cs)>>), LazyPlus(Cls(AlphaSpace)),
        BeforeOrEol(<<"Province", "District">>)),
    Pat(Cat(<<OtherLine, Lit("Country"), Plus(Cs)>>), LazyPlus(Cls(AlphaSpace)),
        BeforeOrEol(<<"Province", "District">>))>>

current_province_rules ==
  <<Pat(Cat(<<AfterCurrent, Lit("Province"), Star(Cs)>>), LazyPlus(Cls(WordChars)),
        BeforeOrEol(<<"District", "Municipality">>)),
    Pat(Cat(<<OtherLine, Lit("Province"), Plus(Cs)>>), LazyPlus(Cls(WordChars)),
        BeforeOrEol(<<"District", "Municipality">>))>>

\* Permanent Address[:\s]*.*?
AfterPermanentAddress == Cat(<<Lit("Permanent Address"), Star(Cs), LazyStar(Dot)>>)
\* Permanent.*?
AfterPermanent == Cat(<<Lit("Permanent"), LazyStar(Dot)>>)
\* :yfoL 7]ufgf[:\s]*.*?
AfterPermanentGlyph == Cat(<<Lit(":yfoL 7]ufgf"), Star(Cs), LazyStar(Dot)>>)

permanent_country_rules ==
  <<Pat(Cat(<<AfterPermanentAddress, Lit("Country"), Star(Cs)>>), LazyPlus(Cls(AlphaSpace)),
        BeforeOrEol(<<"Province", "District">>)),
    Pat(Cat(<<AfterPermanent, Lit("Country"), Star(Cs)>>), LazyPlus(Cls(AlphaSpace)),
        BeforeOrEol(<<"Province", "District">>)),
    Pat(Cat(<<AfterPermanentGlyph, Lit("b]z"), Star(Cs)>>), LazyPlus(Cls(AlphaSpace)),
        BeforeOrEol(<<"k", "b]z", "lhNnf">>)),
    Pat(Cat(<<AfterPermanent, Lit("Country"), Star(Cs)>>), Plus(Cls(AlphaSpace)), Empty),
    Pat(Cat(<<Lit("Country"), Star(Cs)>>), LazyPlus(Cls(AlphaSpace)),
        Ahead(Cat(<<LazyStar(Dot), Lit("Province")>>))),
    Pat(Cat(<<Alt(Lits(<<"Country", "b]z">>)), Star(Cs)>>), LazyPlus(Cls(AlphaSpace)),
        Before(Lits(<<"Province", "k", "b]z", "District", "lhNnf">>)))>>

permanent_province_rules ==
  <<Pat(Cat(<<AfterPermanentAddress, Lit("Province"), Star(Cs)>>), LazyPlus(Cls(WordChars)),
        BeforeOrEol(<<"District", "Municipality">>)),
    Pat(Cat(<<AfterPermanent, Lit("Province"), Star(Cs)>>), LazyPlus(Cls(WordChars)),
        BeforeOrEol(<<"District", "Municipality">>)),
    PatBareOr(Cat(<<AfterPermanentGlyph, Lit("k")>>),
              Cat(<<Lit("b]z"), Star(Cs)>>), LazyPlus(Cls(WordChars)),
              BeforeOrEol(<<"lhNnf", "uf=kf=">>)),
    Pat(Cat(<<AfterPermanent, Lit("Province"), Star(Cs)>>), Plus(Cls(WordChars)), Empty),
    Pat(Cat(<<Lit("Province"), Star(Cs)>>), LazyPlus(Cls(WordChars)),
        Ahead(Cat(<<LazyStar(Dot), Lit("District")>>))),
    Pat(Cat(<<Alt(Lits(<<"Province", "k", "b]z">>)), Star(Cs)>>), LazyPlus(Cls(WordChars)),
        Before(Lits(<<"District", "lhNnf", "Municipality", "uf=kf=">>)))>>

\* (?=\s*(?:Father\'?s?\s*Name|Father\s*Name|\n|$))
BeforeFather ==
  Before(<<Cat(<<Lit("Father"), AposS, Star(Sp), Lit("Name")>>),
           Cat(<<Lit("Father"), Star(Sp), Lit("Name")>>), Lit("\n"), Eol>>)

grandfather_name_rules ==
  <<Pat(Cat(<<Lit("Grand"), Star(Sp), Lit("Father"), AposS, Star(Sp), Lit("Name"), Star(Cs)>>),
        NameLazy, BeforeFather),
    Pat(Cat(<<Lit("Grandfather"), AposS, Star(Sp), Lit("Name"), Star(Cs)>>), NameLazy, BeforeFather),
    Pat(Cat(<<Lit("Grand"), Star(Sp), Lit("Father"), Star(Cs)>>), NameLazy, BeforeFather),
    Pat(Cat(<<Alt(<<Cat(<<Lit("Grand"), Star(Sp), Lit("Father")>>), Lit("Grandfather")>>),
              AposS, Star(Sp), Lit("Name"), Star(Cs)>>), NameLazy, BeforeFather)>>

\* X\'?s?\s*Name
PossName(who) == Cat(<<Lit(who), AposS, Star(Sp), Lit("Name")>>)

\* (?<!Grand\s)(?<!Grandfather\s)
NotGrand ==
  Cat(<<NotBehind(Cat(<<Lit("Grand"), Sp>>), 6), NotBehind(Cat(<<Lit("Grandfather"), Sp>>), 12)>>)

father_name_rules ==
  <<Pat(Cat(<<NotGrand, PossName("Father"), Star(Cs)>>), NameLazy,
        Before(<<PossName("Mother"), PossName("Spouse"), PossName("Son"), PossName("Daughter"),
                 Eol, Lit("\n")>>)),
    Pat(Cat(<<NotGrand, Lit("Father"), Star(Cs)>>), NameLazy,
        Before(<<Lit("Name"), PossName("Mother"), PossName("Spouse"), PossName("Son"),
                 PossName("Daughter"), Eol, Lit("\n")>>))>>

mother_name_rules ==
  <<Pat(Cat(<<PossName("Mother"), Star(Cs)>>), NameLazy, BeforeOrEol(<<"Spouse", "Son", "Daughter">>)),
    Pat(Cat(<<Lit("cfdfsf]"), Star(Sp), Lit("gfd"), Star(Cs)>>), NameLazy,
        BeforeOrEol(<<"klt÷kTgLsf]", "5f]/fsf]">>))>>

spouse_name_rules ==
  <<Pat(Cat(<<PossName("Spouse"), Star(Cs)>>), NameLazy, BeforeOrEol(<<"Son", "Daughter", "Bank">>)),
    Pat(Cat(<<Lit("klt÷kTgLsf]"), Star(Sp), Lit("gfd"), Star(Cs)>>), NameLazy,
        BeforeOrEol(<<"5f]/fsf]", "5f]/Lsf]">>))>>

daughter_name_rules ==
  <<PatFlag(Cat(<<Lit("daughter"), Opt(Lit("s")), Star(Sp), Lit("name"), Star(Cs)>>), NameLazy,
            BeforeOrEol(<<"Bank", "Details", "Money">>)),
    Pat(Cat(<<Lit("Daughter"), AposThenS, Star(Sp), Lit("Name"), Star(Cs)>>), NameLazy,
        Before(<<Lit("Bank"), Lit("Details"), Lit("Money"),
                 Cat(<<Lit("in"), Star(Dot), Lit("law")>>), Eol, Lit("\n")>>)),
    Pat(Cat(<<PossName("Daughter"), Star(Cs)>>), NameLazy, BeforeOrEol(<<"Bank", "Details", "Money">>)),
    Pat(Cat(<<Lit("5f]/Lsf]"), Star(Sp), Lit("gfd"), Star(Cs)>>), NameLazy,
        Before(<<Cat(<<Lit("a"), Plus(Lit("}")), Lit("s")>>), Lit("k}zf"), Eol, Lit("\n")>>))>>

\* Mother\s*[-]?\s*in\s*[-]?\s*Law\'s?\s*Name[:\s]*
MotherDashInLaw ==
  Cat(<<Lit("Mother"), Star(Sp), Opt(Lit("-")), Star(Sp), Lit("in"), Star(Sp), Opt(Lit("-")),
        Star(Sp), Lit("Law"), AposThenS, Star(Sp), Lit("Name"), Star(Cs)>>)

mother_in_law_name_rules ==
  <<Pat(Cat(<<Lit("Mother"), Star(Sp), Lit("in"), Star(Sp), Lit("Law"), AposS, Star(Sp),
              Lit("Name"), Star(Cs)>>), NameGreedy, Empty),
    Pat(MotherDashInLaw, NameLazy, BeforeOrEol(<<"Bank", "Details", "Occupation">>)),
    PatBad,
    Pat(MotherDashInLaw, NameLazy, BeforeOrEol(<<"Bank", "Details", "Occupation">>)),
    Pat(Cat(<<Lit("Mother-in-law"), AposThenS, Star(Sp), Lit("Name"), Star(Cs)>>), NameLazy,
        BeforeOrEol(<<"Bank", "Details", "Occupation">>)),
    PatFlag(Cat(<<Lit("mother"), Star(Sp), Lit("in"), Star(Sp), Lit("law"), Star(Sp), Lit("name"),
                  Star(Cs)>>), NameLazy, Empty)>>

account_type_rules ==
  <<Pat(Cat(<<Lit("Type of Bank Account"), Plus(Cs)>>), Alt(Lits(<<"Saving", "Current">>)),
        BeforeOrEol(<<"Bank Account", "Name", "Details">>)),
    Pat(Cat(<<Lit("a"), Plus(Lit("}")), Lit("s vftfsf] lsl;d"), Plus(Cs)>>),
        Alt(Lits(<<"art", "rNtL">>)),
        Before(<<Cat(<<Lit("a"), Plus(Lit("}")), Lit("s vftf")>>), Lit("gfd"), Eol, Lit("\n")>>))>>

\* ([A-Za-z/ ]{3,50})
OccupationCap == Rep(Cls(Alpha \cup {"/", " "}), 3, 50)

occupation_rules ==
  <<Pat(Cat(<<Lit("Occupation"), Star(Sp)>>), OccupationCap,
        BeforeOrEol(<<"Types", "Organization", "Name">>)),
    Pat(Cat(<<Lit("Details of Occupation"), Star(Sp), Lit("Occupation"), Star(Sp)>>),
        OccupationCap, Empty),
    Pat(Cat(<<Lit("k]zf"), Star(Cs)>>), OccupationCap,
        Before(<<Lit("k"), Lit("sf/"), Cat(<<Plus(Lit(";")), Lit(":yf")>>), Eol, Lit("\n")>>))>>

sector_rules ==
  <<Pat(Cat(<<Lit("Occupation"), Star(Sp), Star(Cs)>>), Plus(Dot), Empty)>>

address_rules ==
  <<Pat(Cat(<<Lit("Address"), Star(Sp)>>), Rep(Cls(Alpha \cup Digit \cup {" ", ",", "-"}), 3, 50), Empty)>>

politician_rules ==
  <<Pat(Cat(<<Lit("Are You A Politician Or A High-Ranking Person?"), Star(Sp)>>),
        Alt(Lits(<<"Yes", "No">>)), Empty)>>

related_rules ==
  <<Pat(Cat(<<Lit("Are You Related To A Politician Or A High-Ranking Official?"), Star(Sp)>>),
        Alt(Lits(<<"Yes", "No">>)), Empty)>>

beneficiary_rules ==
  <<Pat(Cat(<<Lit("Do You Have A Beneficiary?"), Star(Sp)>>), Alt(Lits(<<"Yes", "No">>)), Empty)>>

felony_rules ==
  <<Pat(Cat(<<Lit("Have You Been Convicted Of A Felony In The Past?"), Star(Sp)>>),
        Alt(Lits(<<"Yes", "No">>)), Empty)>>

guardian_name_rules ==
  <<Pat(Cat(<<Lit("Name/Surname"), Plus(Cs)>>), Rep(Cls(AlphaSpace), 3, 20),
        Ahead(Alt(<<Cat(<<Plus(Sp), Lit("Relationship")>>), Eol>>)))>>

minor_mobile_rules ==
  <<Pat(Cat(<<Lit("Mobile"), Plus(Sp), Lit("No"), Plus(Cs)>>), Rep(Cls(Digit), 6, 15), Empty)>>

temporary_country_rules ==
  <<Pat(Cat(<<Lit("Temporary Address"), Star(Cs), LazyStar(Dot), Lit("Country"), Star(Cs)>>),
        Plus(Cls(AlphaSpace)), Empty),
    Pat(Cat(<<Lit("c:yfoL 7]ufgf"), Star(Cs), LazyStar(Dot), Lit("b]z"), Star(Cs)>>),
        Plus(Cls(AlphaSpace)), Empty)>>

temporary_province_rules ==
  <<Pat(Cat(<<Lit("Temporary Address"), Star(Cs), LazyStar(Dot), Lit("Province"), Star(Cs)>>),
        Plus(Cls(WordChars)), Empty),
    PatBareOr(Cat(<<Lit("c:yfoL 7]ufgf"), Star(Cs), LazyStar(Dot), Lit("k")>>),
              Cat(<<Lit("b]z"), Star(Cs)>>), Plus(Cls(WordChars)), Empty)>>

\* ([A-Za-z0-9,\s\-\.]+?) and ([A-Za-z0-9,\s\-\.]+)
AmountChars == Alpha \cup Digit \cup Space \cup {",", "-", "."}

annual_income_rules ==
  <<Pat(Cat(<<Lit("Annual Income"), Star(Cs)>>), LazyPlus(Cls(AmountChars)),
        BeforeOrEol(<<"Details", "Bank">>)),
    Pat(Cat(<<Lit("jflifs cfo"), Star(Cs)>>), Plus(Cls(AmountChars)), Empty)>>

\* self.patterns, category by category: patterns['current_address'] is current_address_patterns
current_address_patterns == [country |-> current_country_rules, province |-> current_province_rules]

permanent_address_patterns == [country |-> permanent_country_rules, province |-> permanent_province_rules]

family_members_patterns ==
  [grandfather_name |-> grandfather_name_rules,
   father_name |-> father_name_rules,
   mother_name |-> mother_name_rules,
   spouse_name |-> spouse_name_rules,
   daughter_name |-> daughter_name_rules,
   mother_in_law_name |-> mother_in_law_name_rules]

bank_details_patterns == [account_type |-> account_type_rules]

occupation_patterns == [occupation |-> occupation_rules, sector |-> sector_rules, address |-> address_rules]

money_laundering_patterns ==
  [politician_or_high_ranking_person |-> politician_rules,
   related_to_politician_or_high_ranking_official |-> related_rules,
   have_a_beneficiary |-> beneficiary_rules,
   convicted_of_felony |-> felony_rules]

guardian_details_patterns == [guardian_name |-> guardian_name_rules]

minor_contact_patterns == [minor_mobile |-> minor_mobile_rules]

temporary_address_patterns == [country |-> temporary_country_rules, province |-> temporary_province_rules]

financial_details_patterns == [annual_income |-> annual_income_rules]

\* the keys of each category, in the order in which the dict holds them
current_address_fields == <<"country", "province">>
permanent_address_fields == <<"country", "province">>
family_members_list == <<"grandfather_name", "father_name", "mother_name", "spouse_name",
                         "daughter_name", "mother_in_law_name">>
bank_details_fields == <<"account_type">>
occupation_fields == <<"occupation", "sector", "address">>
money_laundering_fields == <<"politician_or_high_ranking_person",
                             "related_to_politician_or_high_ranking_official",
                             "have_a_beneficiary", "convicted_of_felony">>
guardian_details_fields == <<"guardian_name">>
minor_contact_fields == <<"minor_mobile">>
temporary_address_fields == <<"country", "province">>
financial_details_fields == <<"annual_income">>

-----------------------------------------------------------------------------
(* _extract_field.                                                         *)

\* a loop body that does not reject the placeholder '-'
TryPatternKeepsPlaceholder(p, txt, strict) ==
  IF p.bad \/ (p.iflag /\ strict) THEN [o |-> "raise"]
  ELSE Let(Search(p, txt),
           LAMBDA match :
             IF match.m = "none" THEN [o |-> "next"]
             ELSE IF match.m = "nogroup" THEN [o |-> "raise"]
             ELSE IF strip(match.v) # "" THEN [o |-> "return", v |-> strip(match.v)]
             ELSE [o |-> "next"])

\* one iteration of the for loop: what the try block does with pattern p
\*   [o |-> "raise"]           an exception, swallowed by except Exception: continue
\*   [o |-> "next"]            no match, or a capture that strips to '' or '-'
\*   [o |-> "return", v |-> e] return extracted_value
TryPattern(p, txt, strict) ==
  IF p.bad \/ (p.iflag /\ strict) THEN [o |-> "raise"]
  ELSE Let(Search(p, txt),
           LAMBDA match :
             IF match.m = "none" THEN [o |-> "next"]
             ELSE IF match.m = "nogroup" THEN [o |-> "raise"]
             ELSE Let(strip(match.v),
                      LAMBDA extracted_value :
                        IF extracted_value # "" /\ extracted_value # "-"
                        THEN [o |-> "return", v |-> extracted_value]
                        ELSE [o |-> "next"]))

RECURSIVE ExtractFrom(_, _, _, _)
ExtractFrom(txt, pats, k, strict) ==
  IF k > Len(pats) THEN <<>>
  ELSE Let(TryPattern(pats[k], txt, strict),
           LAMBDA t : IF t.o = "return" THEN <<t.v>> ELSE ExtractFrom(txt, pats, k + 1, strict))

\* _extract_field(text, patterns): <<value>>, or << >> for None
extract_field(txt, pats) == ExtractFrom(txt, pats, 1, strictFlags)

-----------------------------------------------------------------------------
(* The sub-extractors.  Each returns the dict data it builds.              *)

\* for field in fields: data = Body(data, field)
RECURSIVE ForEach(_, _, _, _)
ForEach(Body(_, _), fields, k, data) ==
  IF k > Len(fields) THEN data ELSE ForEach(Body, fields, k + 1, Body(data, fields[k]))

\* if value and value.strip() and value.strip() != '-'
Usable(value) ==
  value # <<>> /\ Let(strip(value[1]), LAMBDA stripped : stripped # "" /\ stripped # "-")

\* the comparison without gender.upper()
normalize_gender_as_written(gender) ==
  IF gender \in {"M", "MALE", "k\\w*if"} THEN "Male"
  ELSE IF gender \in {"F", "FEMALE", "dlxnf"} THEN "Female"
  ELSE strip(gender)

normalize_gender(gender) ==
  Let(upper(gender),
      LAMBDA gender_normalized :
        IF gender_normalized \in {"M", "MALE", "k\\w*if"} THEN "Male"
        ELSE IF gender_normalized \in {"F", "FEMALE", "dlxnf"} THEN "Female"
        ELSE strip(gender))

\* ^\d{4}[-/]\d{2}[-/]\d{2}$
DatePattern ==
  Cat(<<Rep(Cls(Digit), 4, 4), Cls({"-", "/"}), Rep(Cls(Digit), 2, 2), Cls({"-", "/"}),
        Rep(Cls(Digit), 2, 2), Eos>>)

\* citizenship_clean = re.sub(r'[^\d\-/]', '', citizenship.strip())
citizenship_clean(citizenship) == keepChars(strip(citizenship), Digit \cup {"-", "/"})

\* the checks without the two on the leading year
citizenship_ok_any_prefix(clean) ==
  /\ clean # ""
  /\ Len(clean) >= 3
  /\ ~Match(DatePattern, clean)

\* the condition under which data['citizenship_no'] is set
citizenship_ok(clean) ==
  /\ clean # ""
  /\ Len(clean) >= 3
  /\ ~Match(DatePattern, clean)
  /\ ~startswith(clean, "20")
  /\ ~startswith(clean, "19")

\* the citizenship block of _extract_basic_info, citizenship the value of _extract_field
citizenship_block(data, citizenship) ==
  IF citizenship # <<>> /\ citizenship[1] # ""
  THEN Let(citizenship_clean(citizenship[1]),
           LAMBDA clean : IF citizenship_ok(clean) THEN put(data, "citizenship_no", clean) ELSE data)
  ELSE data

\* the blocks of _extract_basic_info: data after the block, value the result of _extract_field
name_block(data, name) ==
  IF name # <<>> THEN put(data, "name", upper(strip(name[1]))) ELSE data

dob_block(data, dob) ==
  IF dob # <<>> THEN put(data, "date_of_birth", strip(dob[1])) ELSE data

gender_block(data, gender) ==
  IF gender # <<>> THEN put(data, "gender", normalize_gender(gender[1])) ELSE data

beneficiary_block(data, beneficiary_id) ==
  IF beneficiary_id # <<>>
  THEN Let(keepChars(strip(beneficiary_id[1]), Digit),
           LAMBDA beneficiary_clean :
             IF beneficiary_clean # "" THEN put(data, "beneficiary_id", beneficiary_clean) ELSE data)
  ELSE data

\* pan_clean.replace('-', '').isalnum()
isalnum(str) == str # "" /\ \A i \in 1..Len(str) : At(lower(str), i) \in Alpha \cup Digit

pan_block(data, pan) ==
  IF pan # <<>> /\ strip(pan[1]) # "-" /\ ~endswith(lower(pan[1]), "ies")
  THEN Let(strip(pan[1]),
           LAMBDA pan_clean :
             IF Len(pan_clean) >= 9 /\ isalnum(replace(pan_clean, "-", ""))
             THEN put(data, "pan_no", pan_clean) ELSE data)
  ELSE data

\* national_id, issue_district and issue_date
plain_block(data, key, value) ==
  IF value # <<>> /\ strip(value[1]) # "-" THEN put(data, key, strip(value[1])) ELSE data

extract_basic_info(txt) ==
  plain_block(
    plain_block(
      plain_block(
        pan_block(
          beneficiary_block(
            citizenship_block(
              gender_block(
                dob_block(
                  name_block(<<>>, extract_field(txt, name_rules)),
                  extract_field(txt, date_of_birth_rules)),
                extract_field(txt, gender_rules)),
              extract_field(txt, citizenship_no_rules)),
            extract_field(txt, beneficiary_id_rules)),
          extract_field(txt, pan_no_rules)),
        "national_id", extract_field(txt, national_id_rules)),
      "issue_district", extract_field(txt, issue_district_rules)),
    "issue_date", extract_field(txt, issue_date_rules))

\* ---- _extract_address_info: the section split

section_keywords_current == {"permanent", "temporary", "family", "bank", "occupation"}
section_keywords_permanent == {"temporary", "family", "bank", "occupation"}

any_keyword(line_lower, keywords) == \E keyword \in keywords : contains(line_lower, keyword)

\* a split that takes the permanent heading for the current one
seg_branch_one_heading(st, line) ==
  Let(strip(lower(line)),
      LAMBDA line_lower :
        IF contains(line_lower, "current address") /\ ~contains(line_lower, "permanent")
        THEN "current_marker"
        ELSE IF contains(line_lower, "permanent address") THEN "current_marker"
        ELSE IF st.in_current /\ ~st.in_permanent THEN "current_line"
        ELSE IF st.in_permanent /\ ~st.in_current THEN "permanent_line"
        ELSE "skip")

\* the branch of the loop body that line takes: "current_marker", "permanent_marker",
\* "current_line", "permanent_line" or "skip"
seg_branch(st, line) ==
  Let(strip(lower(line)),
      LAMBDA line_lower :
        IF contains(line_lower, "current address") /\ ~contains(line_lower, "permanent")
        THEN "current_marker"
        ELSE IF contains(line_lower, "permanent address") THEN "permanent_marker"
        ELSE IF st.in_current /\ ~st.in_permanent THEN "current_line"
        ELSE IF st.in_permanent /\ ~st.in_current THEN "permanent_line"
        ELSE "skip")

\* an iteration whose section marker leaves the other capture as it was
seg_step_marker_keeps_other(st, line, n) ==
  Let(seg_branch(st, line),
      LAMBDA branch :
        CASE branch = "current_marker" ->
               [st EXCEPT !.in_current = TRUE, !.current_section = Append(@, n)]
          [] branch = "permanent_marker" ->
               [st EXCEPT !.in_permanent = TRUE, !.permanent_section = Append(@, n)]
          [] branch = "current_line" ->
               [st EXCEPT !.current_section = Append(@, n),
                          !.in_current = ~any_keyword(strip(lower(line)), section_keywords_current)]
          [] branch = "permanent_line" ->
               [st EXCEPT !.permanent_section = Append(@, n),
                          !.in_permanent = ~any_keyword(strip(lower(line)), section_keywords_permanent)]
          [] OTHER -> st)

\* an iteration that never stops a capture at a keyword
seg_step_never_stops(st, line, n) ==
  Let(seg_branch(st, line),
      LAMBDA branch :
        CASE branch = "current_marker" ->
               [st EXCEPT !.in_current = TRUE, !.in_permanent = FALSE,
                          !.current_section = Append(@, n)]
          [] branch = "permanent_marker" ->
               [st EXCEPT !.in_permanent = TRUE, !.in_current = FALSE,
                          !.permanent_section = Append(@, n)]
          [] branch = "current_line" -> [st EXCEPT !.current_section = Append(@, n)]
          [] branch = "permanent_line" -> [st EXCEPT !.permanent_section = Append(@, n)]
          [] OTHER -> st)

\* an iteration that looks for the keywords before it appends the line
seg_step_stops_before_append(st, line, n) ==
  Let(seg_branch(st, line),
      LAMBDA branch :
        CASE branch = "current_marker" ->
               [st EXCEPT !.in_current = TRUE, !.in_permanent = FALSE,
                          !.current_section = Append(@, n)]
          [] branch = "permanent_marker" ->
               [st EXCEPT !.in_permanent = TRUE, !.in_current = FALSE,
                          !.permanent_section = Append(@, n)]
          [] branch = "current_line" ->
               IF any_keyword(strip(lower(line)), section_keywords_current)
               THEN [st EXCEPT !.in_current = FALSE]
               ELSE [st EXCEPT !.current_section = Append(@, n)]
          [] branch = "permanent_line" ->
               IF any_keyword(strip(lower(line)), section_keywords_permanent)
               THEN [st EXCEPT !.in_permanent = FALSE]
               ELSE [st EXCEPT !.permanent_section = Append(@, n)]
          [] OTHER -> st)

\* one iteration of the loop over text_lines: line is line number n
seg_step(st, line, n) ==
  Let(seg_branch(st, line),
      LAMBDA branch :
        CASE branch = "current_marker" ->
               [st EXCEPT !.in_current = TRUE, !.in_permanent = FALSE,
                          !.current_section = Append(@, n)]
          [] branch = "permanent_marker" ->
               [st EXCEPT !.in_permanent = TRUE, !.in_current = FALSE,
                          !.permanent_section = Append(@, n)]
          [] branch = "current_line" ->
               [st EXCEPT !.current_section = Append(@, n),
                          !.in_current = ~any_keyword(strip(lower(line)), section_keywords_current)]
          [] branch = "permanent_line" ->
               [st EXCEPT !.permanent_section = Append(@, n),
                          !.in_permanent = ~any_keyword(strip(lower(line)), section_keywords_permanent)]
          [] OTHER -> st)

seg_start ==
  [in_current |-> FALSE, in_permanent |-> FALSE, current_section |-> <<>>, permanent_section |-> <<>>]

RECURSIVE seg_loop(_, _, _)
seg_loop(st, lines, n) ==
  IF n > Len(lines) THEN st ELSE seg_loop(seg_step(st, lines[n], n), lines, n + 1)

\* '\n'.join(section), section the numbers of the lines it holds
section_text(lines, section) == join([k \in 1..Len(section) |-> lines[section[k]]])

current_text(txt) ==
  Let(splitLines(txt),
      LAMBDA lines : section_text(lines, seg_loop(seg_start, lines, 1).current_section))

permanent_text(txt) ==
  Let(splitLines(txt),
      LAMBDA lines : section_text(lines, seg_loop(seg_start, lines, 1).permanent_section))

\* ---- _extract_address_info: the fields

\* value = _extract_field(section_text, patterns); if not value: value = _extract_field(text, patterns)
section_value(view, txt, pats) ==
  Let(extract_field(view, pats),
      LAMBDA value : IF value # <<>> THEN value ELSE extract_field(txt, pats))

current_field(data, txt, view, field) ==
  Let(section_value(view, txt, current_address_patterns[field]),
      LAMBDA value : IF Usable(value) THEN put(data, "current_" \o field, strip(value[1])) ELSE data)

\* if word in clean_value: clean_value = clean_value.split(word)[0].strip()
cut_before(clean_value, word) ==
  IF contains(clean_value, word) THEN strip(splitHead(clean_value, word)) ELSE clean_value

permanent_clean(field, value) ==
  Let(strip(value),
      LAMBDA clean_value :
        stripChars(
          CASE field = "country" -> cut_before(cut_before(clean_value, "Province"), "District")
            [] field = "province" -> cut_before(cut_before(clean_value, "District"), "Municipality")
            [] field = "district" -> cut_before(cut_before(clean_value, "Municipality"), "Ward")
            [] field = "municipality" -> cut_before(cut_before(clean_value, "Ward"), "Tole")
            [] OTHER -> clean_value,
          ColonSpace))

permanent_field(data, txt, view, field) ==
  Let(section_value(view, txt, permanent_address_patterns[field]),
      LAMBDA value :
        IF Usable(value)
        THEN Let(permanent_clean(field, value[1]),
                 LAMBDA clean_value :
                   IF clean_value # "" /\ clean_value # "-"
                   THEN put(data, "permanent_" \o field, clean_value) ELSE data)
        ELSE data)

extract_address_info(txt) ==
  Let(current_text(txt),
      LAMBDA cur :
        Let(permanent_text(txt),
            LAMBDA perm :
              ForEach(LAMBDA data, field : permanent_field(data, txt, perm, field),
                      permanent_address_fields, 1,
                      ForEach(LAMBDA data, field : current_field(data, txt, cur, field),
                              current_address_fields, 1, <<>>))))

\* ---- _extract_family_info (the definition in force, the later of the two)

junk_names == {"DAUGHTER", "SON", "MOTHER", "FATHER", "MONEY LAUNDERING"}

label_words(member) == upper(replace(replace(member, "_name", ""), "_", " "))

\* a loop body that, when the value fails the label check, goes on to the later rules
family_member_reopens(data, txt, member) ==
  Let(First(LAMBDA k :
              Let(TryPattern(family_members_patterns[member][k], txt, strictFlags),
                  LAMBDA t : IF t.o = "return"
                                  /\ upper(strip(t.v)) \notin junk_names \cup {label_words(member)}
                             THEN <<upper(strip(t.v))>> ELSE <<>>),
            1, Len(family_members_patterns[member])),
      LAMBDA cleaned : IF cleaned = <<>> THEN data ELSE put(data, member, cleaned[1]))

family_member(data, txt, member) ==
  Let(extract_field(txt, family_members_patterns[member]),
      LAMBDA value :
        IF value = <<>> THEN data
        ELSE Let(upper(strip(value[1])),
                 LAMBDA cleaned :
                   IF cleaned = label_words(member) \/ cleaned \in junk_names THEN data
                   ELSE IF cleaned # "" /\ cleaned # "-" THEN put(data, member, cleaned)
                   ELSE data))

extract_family_info(txt) ==
  ForEach(LAMBDA data, member : family_member(data, txt, member), family_members_list, 1, <<>>)

\* ---- _validate_family_names, statement by statement

\* the first if: st.warning is called
family_warns(fd) ==
  /\ "father_name" \in DOMAIN fd
  /\ "grandfather_name" \in DOMAIN fd
  /\ fd["father_name"] = fd["grandfather_name"]

\* a first inner if that deletes nothing
spouse_vs_father_kept(fd) == fd

\* if 'father_name' in family_data and family_data['spouse_name'] == family_data['father_name']:
\*     del family_data['spouse_name']
spouse_vs_father(fd) ==
  IF "father_name" \in DOMAIN fd /\ fd["spouse_name"] = fd["father_name"]
  THEN del(fd, "spouse_name") ELSE fd

\* the second inner if raises KeyError: it reads family_data['spouse_name']
spouse_vs_mother_raises(fd) == "mother_name" \in DOMAIN fd /\ "spouse_name" \notin DOMAIN fd

\* if 'mother_name' in family_data and family_data['spouse_name'] == family_data['mother_name']:
\*     del family_data['spouse_name']
spouse_vs_mother(fd) ==
  IF "mother_name" \in DOMAIN fd /\ fd["spouse_name"] = fd["mother_name"]
  THEN del(fd, "spouse_name") ELSE fd

\* the whole call: [raised, data, warned]
validate_family_names(fd) ==
  IF "spouse_name" \notin DOMAIN fd
  THEN [raised |-> FALSE, data |-> fd, warned |-> family_warns(fd)]
  ELSE Let(spouse_vs_father(fd),
           LAMBDA fd1 :
             IF spouse_vs_mother_raises(fd1)
             THEN [raised |-> TRUE, data |-> fd1, warned |-> family_warns(fd)]
             ELSE [raised |-> FALSE, data |-> spouse_vs_mother(fd1), warned |-> family_warns(fd)])

\* ---- the other sub-extractors

bank_field(data, txt, field) ==
  Let(extract_field(txt, bank_details_patterns[field]),
      LAMBDA value :
        IF Usable(value)
        THEN put(data, IF field = "bank_name" THEN "bank_name" ELSE "bank_" \o field, strip(value[1]))
        ELSE data)

extract_bank_info(txt) ==
  ForEach(LAMBDA data, field : bank_field(data, txt, field), bank_details_fields, 1, <<>>)

\* \b(Address|Designation|ID No)\b, matched without re.IGNORECASE
SpilloverPattern ==
  Pat(WordB, Alt(<<ExactLit("Address"), ExactLit("Designation"), ExactLit("ID No")>>), WordB)

\* re.split(r'\b(Address|Designation|ID No)\b', value)[0]
before_spillover(value) ==
  Let(SearchFrom(SpilloverPattern, value, 0),
      LAMBDA c : IF c = <<>> THEN value ELSE SubSeq(value, 1, c[1]))

layout_artifacts == {"permanent", "current", "temporary", "occupation", "address"}

occupation_field(data, txt, field) ==
  Let(Let(extract_field(txt, occupation_patterns[field]),
          LAMBDA found :
            IF found # <<>> THEN collapseSpace(strip(before_spillover(found[1]))) ELSE ""),
      LAMBDA value :
        IF /\ value # "" /\ value # "-"
           /\ lower(value) \notin layout_artifacts
           /\ lower(value) # lower(strip(replace(replace(field, "_name", ""), "_", " ")))
        THEN put(data, field, value) ELSE data)

\* the loop alone, without the statement after it
extract_occupation_info_no_fallback(txt) ==
  ForEach(LAMBDA d, field : occupation_field(d, txt, field), occupation_fields, 1, <<>>)

\* the loop, then: if 'occupation' not in data and 'sector' in data: ...
extract_occupation_info(txt) ==
  Let(ForEach(LAMBDA d, field : occupation_field(d, txt, field), occupation_fields, 1, <<>>),
      LAMBDA data : IF "occupation" \notin DOMAIN data /\ "sector" \in DOMAIN data
                    THEN put(data, "occupation", data["sector"]) ELSE data)

guardian_field(data, txt, field) ==
  Let(extract_field(txt, guardian_details_patterns[field]),
      LAMBDA value :
        IF Usable(value) THEN put(data, field, collapseSpace(strip(value[1]))) ELSE data)

extract_guardian_info(txt) ==
  ForEach(LAMBDA data, field : guardian_field(data, txt, field), guardian_details_fields, 1, <<>>)

minor_field(data, txt, field) ==
  Let(extract_field(txt, minor_contact_patterns[field]),
      LAMBDA value :
        IF Usable(value) THEN put(data, field, removeSpace(strip(value[1]))) ELSE data)

extract_minor_contact_info(txt) ==
  ForEach(LAMBDA data, field : minor_field(data, txt, field), minor_contact_fields, 1, <<>>)

\* clean_value of _extract_temporary_address_info
temporary_clean(field, value) ==
  Let(strip(value),
      LAMBDA clean_value :
        IF field = "country" /\ contains(clean_value, "Province")
        THEN strip(splitHead(clean_value, "Province")) ELSE clean_value)

\* a loop body copied from the current-address loop with its prefix left in
temporary_field_current_prefix(data, txt, field) ==
  Let(extract_field(txt, temporary_address_patterns[field]),
      LAMBDA value :
        IF Usable(value)
        THEN put(data, "current_" \o field, temporary_clean(field, value[1])) ELSE data)

\* the body of the loop of _extract_temporary_address_info
temporary_field(data, txt, field) ==
  Let(extract_field(txt, temporary_address_patterns[field]),
      LAMBDA value :
        IF Usable(value)
        THEN put(data, "temporary_" \o field, temporary_clean(field, value[1])) ELSE data)

extract_temporary_address_info(txt) ==
  ForEach(LAMBDA data, field : temporary_field(data, txt, field), temporary_address_fields, 1, <<>>)

financial_field(data, txt, field) ==
  Let(extract_field(txt, financial_details_patterns[field]),
      LAMBDA value : IF Usable(value) THEN put(data, field, strip(value[1])) ELSE data)

extract_financial_info(txt) ==
  ForEach(LAMBDA data, field : financial_field(data, txt, field), financial_details_fields, 1, <<>>)

money_laundering_field(data, txt, field) ==
  Let(extract_field(txt, money_laundering_patterns[field]),
      LAMBDA value : IF Usable(value) THEN put(data, field, strip(value[1])) ELSE data)

extract_money_laundering_info(txt) ==
  ForEach(LAMBDA data, field : money_laundering_field(data, txt, field),
          money_laundering_fields, 1, <<>>)

-----------------------------------------------------------------------------
(* Bounds and inputs.                                                      *)

MaxDocLines == 2
MaxFieldLines == 2
MaxSegLines == 4
MaxCitLen == 3
MaxNames == 2
MaxGenLen == 2
MaxRecordKeys == 3
MaxFiles == 2

\* the non-empty subsequences of lines with at most n lines, joined by newlines: a text
\* as the text producer gives it (stripped, non-blank lines)
RECURSIVE Picks(_, _, _)
Picks(lines, from, n) ==
  IF n = 0 \/ from > Len(lines) THEN {<<>>}
  ELSE Picks(lines, from + 1, n) \cup {<<lines[from]>> \o rest : rest \in Picks(lines, from + 1, n - 1)}

TextsOf(lines, n) == {join(pick) : pick \in Picks(lines, 1, n) \ {<<>>}}

\* the sequences of 1 to n lines drawn from a set of lines
RECURSIVE LineSeqs(_, _)
LineSeqs(lineSet, n) ==
  IF n = 0 THEN {<<>>}
  ELSE Let(LineSeqs(lineSet, n - 1),
           LAMBDA shorter : shorter \cup {Append(ls, l) : ls \in shorter, l \in lineSet})

\* a form, top to bottom: each line may be missing from a document
FormLines ==
  <<"Current Address", "Country: Nepal", "Permanent Address", "Country: India",
    "Temporary Address", "Country: Province: Bagmati",
    "Father's Name: RAM", "Mother's Name: SITA", "Spouse's Name: RAM", "Spouse's Name: SITA">>

PersonalDoc == "Name: RAM KUMAR SHARMA\nDate of Birth AD: 1990-05-12\nGender: M\nCitizenship No: 123456"

FamilyDoc == "Father's Name: RAM\nMother's Name: SITA\nSpouse's Name: RAM"

AddressDoc == "Current Address\nCountry: Nepal\nPermanent Address\nCountry: India"

\* the label echoed before the value
OccupationDoc == "Occupation\nOccupation\nStudent"

\* texts about the occupation, about names, about address values that run into the next
\* label, about the questionnaire's answers, about a spouse next to other keys, and two
\* where the first rule's capture fails the field's check and a later rule's would pass
ScenarioDocs ==
  {OccupationDoc, "Occupation: Teacher", "Occupation Student\nOccupation", "Occupation: Permanent",
   "Name: RAM  KUMAR", "Father's Name: RAM  KUMAR", "Name: FATHER", "Father's Name: FATHER",
   "Mother's Name: MONEY LAUNDERING", "Grandfather's Name: HARI\nFather's Name: HARI",
   "Temporary Address\nProvince: Bagmati District", "Temporary Address\nCountry: Nepal District",
   "Current Address\nProvince: Municipality", "Permanent Address\nCountry: Nepal Province",
   "Do You Have A Beneficiary? yes", "Do You Have A Beneficiary? No",
   "Gender: M\nFather's Name: RAM\nSpouse's Name: RAM",
   "Citizenship No: 1985 Issue\nCitizenship Number 123456 Issue",
   "Father's Name: FATHER\nFather: RAM"}

Docs ==
  TextsOf(FormLines, MaxDocLines)
    \cup {PersonalDoc, PersonalDoc \o "\nIssue District: KTM", FamilyDoc, AddressDoc, ""}
    \cup ScenarioDocs

-----------------------------------------------------------------------------
(* States of the parts that a specification leaves alone.                  *)

efIdle ==
  /\ ef_text = "" /\ ef_field = "" /\ ef_k = 0 /\ ef_pc = "idle"
  /\ ef_ret = <<>> /\ ef_tried = <<>> /\ ef_caught = <<>>

segIdle ==
  /\ text_lines = <<>> /\ seg_i = 0 /\ in_current = FALSE /\ in_permanent = FALSE
  /\ current_section = <<>> /\ permanent_section = <<>> /\ seg_last = "idle"

citIdle == cit_raw = <<>> /\ cit_pc = "idle" /\ cit_data = <<>>

famIdle == family_data = <<>> /\ fam_pc = "idle" /\ fam_warned = 0

parseIdle ==
  /\ text = "" /\ pc = "idle" /\ parsed_data = <<>> /\ fam_arg = <<>> /\ result = <<>>
  /\ errors = 0 /\ warnings = 0 /\ propagated = FALSE

passIdle ==
  /\ self_patterns = {} /\ p_text = <<>> /\ p_pc = <<>> /\ p_slot = <<>> /\ p_fam = <<>>
  /\ p_result = <<>> /\ p_after = <<>>

genIdle == gen_raw = <<>> /\ gen_pc = "idle" /\ gen_data = <<>>

fillIdle == fu_parsed_data = <<>> /\ fu_pc = "idle" /\ field_updates = <<>>

batchIdle ==
  /\ source_files = <<>> /\ data_parser = <<>> /\ b_i = 0 /\ b_pc = "idle" /\ extracted_text = ""
  /\ b_parsed_data = <<>> /\ processed_files = <<>> /\ status_log = <<>> /\ error_log = <<>>

-----------------------------------------------------------------------------
(* parse_data, one action per statement of its body.                       *)

Init ==
  /\ strictFlags \in BOOLEAN
  /\ text \in Docs
  /\ pc = "call"
  /\ parsed_data = <<>>
  /\ fam_arg = <<>>
  /\ result = <<>>
  /\ errors = 0
  /\ warnings = 0
  /\ propagated = FALSE
  /\ efIdle /\ segIdle /\ citIdle /\ famIdle /\ passIdle /\ genIdle /\ fillIdle /\ batchIdle

\* parsed_data.update(sub) and on to the next statement
Merge(sub, next) ==
  /\ parsed_data' = update(parsed_data, sub)
  /\ pc' = next
  /\ UNCHANGED <<strictFlags, text, fam_arg, result, errors, warnings, propagated,
                 efVars, segVars, citVars, famVars, passVars, genVars, fillVars, batchVars>>

\* a body without the check of the argument: the empty text goes through the try block
ParseEmptyFallsThrough == pc = "call" /\ text = "" /\ Merge(extract_basic_info(text), "address")

\* if not text: return {}
ParseEmpty ==
  /\ pc = "call" /\ text = ""
  /\ result' = <<>>
  /\ pc' = "done"
  /\ UNCHANGED <<strictFlags, text, parsed_data, fam_arg, errors, warnings, propagated,
                 efVars, segVars, citVars, famVars, passVars, genVars, fillVars, batchVars>>

BasicInfo == pc = "call" /\ text # "" /\ Merge(extract_basic_info(text), "address")

AddressInfo == pc = "address" /\ Merge(extract_address_info(text), "bank")

BankInfo == pc = "bank" /\ Merge(extract_bank_info(text), "occupation")

OccupationInfo == pc = "occupation" /\ Merge(extract_occupation_info(text), "guardian")

GuardianInfo == pc = "guardian" /\ Merge(extract_guardian_info(text), "minor")

MinorContactInfo == pc = "minor" /\ Merge(extract_minor_contact_info(text), "temporary")

TemporaryAddressInfo == pc = "temporary" /\ Merge(extract_temporary_address_info(text), "financial")

FinancialInfo == pc = "financial" /\ Merge(extract_financial_info(text), "family")

\* family_data = self._extract_family_info(text)
FamilyInfo ==
  /\ pc = "family"
  /\ fam_arg' = extract_family_info(text)
  /\ pc' = "validate"
  /\ UNCHANGED <<strictFlags, text, parsed_data, result, errors, warnings, propagated,
                 efVars, segVars, citVars, famVars, passVars, genVars, fillVars, batchVars>>

\* an except clause that returns what was merged before the failure
except_handler_partial == [result |-> parsed_data, errors |-> errors + 1, propagated |-> FALSE]

\* what except Exception does: st.error(...) and return {}
except_handler == [result |-> <<>>, errors |-> errors + 1, propagated |-> FALSE]

\* parsed_data.update(self._validate_family_names(family_data)) when the call returns
ValidateFamily ==
  /\ pc = "validate"
  /\ ~validate_family_names(fam_arg).raised
  /\ parsed_data' = update(parsed_data, validate_family_names(fam_arg).data)
  /\ warnings' = warnings + (IF validate_family_names(fam_arg).warned THEN 1 ELSE 0)
  /\ pc' = "laundering"
  /\ UNCHANGED <<strictFlags, text, fam_arg, result, errors, propagated,
                 efVars, segVars, citVars, famVars, passVars, genVars, fillVars, batchVars>>

\* ... and when the call raises: the except clause of parse_data
ValidateRaises ==
  /\ pc = "validate"
  /\ validate_family_names(fam_arg).raised
  /\ warnings' = warnings + (IF validate_family_names(fam_arg).warned THEN 1 ELSE 0)
  /\ result' = except_handler.result
  /\ errors' = except_handler.errors
  /\ propagated' = except_handler.propagated
  /\ pc' = "done"
  /\ UNCHANGED <<strictFlags, text, parsed_data, fam_arg, efVars, segVars, citVars, famVars, passVars, genVars, fillVars, batchVars>>

MoneyLaunderingInfo == pc = "laundering" /\ Merge(extract_money_laundering_info(text), "return")

\* return parsed_data
Return ==
  /\ pc = "return"
  /\ result' = parsed_data
  /\ pc' = "done"
  /\ UNCHANGED <<strictFlags, text, parsed_data, fam_arg, errors, warnings, propagated,
                 efVars, segVars, citVars, famVars, passVars, genVars, fillVars, batchVars>>

Next ==
  \/ ParseEmpty
  \/ BasicInfo
  \/ AddressInfo
  \/ BankInfo
  \/ OccupationInfo
  \/ GuardianInfo
  \/ MinorContactInfo
  \/ TemporaryAddressInfo
  \/ FinancialInfo
  \/ FamilyInfo
  \/ ValidateFamily
  \/ ValidateRaises
  \/ MoneyLaunderingInfo
  \/ Return

Spec == Init /\ [][Next]_vars

-----------------------------------------------------------------------------
(* _extract_field, one action per way through the body of its loop.        *)

\* the fields whose rule lists are walked, each with the lines its texts are made of
FieldLines ==
  [date_of_birth |-> {"Date of Birth AD 1990-05-12", "AD: 2000-01-01", "Date of Birth: -"},
   annual_income |-> {"Annual Income: -", "jflifs cfo: 5000", "Annual Income: 9000 Details"},
   mother_in_law_name |-> {"Mother in law: SITA", "Mother-in-law's Name: GITA", "Name: -"},
   daughter_name |-> {"Daughter's Name: MAYA", "Daughters Name: UMA", "Daughter Name: -"},
   permanent_province |-> {":yfoL 7]ufgf k", "Province: Koshi District", "b]z: Gandaki lhNnf"}]

FieldRules ==
  [date_of_birth |-> date_of_birth_rules,
   annual_income |-> annual_income_rules,
   mother_in_law_name |-> mother_in_law_name_rules,
   daughter_name |-> daughter_name_rules,
   permanent_province |-> permanent_province_rules]

FieldTexts(field) == {join(ls) : ls \in LineSeqs(FieldLines[field], MaxFieldLines) \ {<<>>}}

FieldInit ==
  /\ strictFlags \in BOOLEAN
  /\ ef_field \in DOMAIN FieldLines
  /\ ef_text \in FieldTexts(ef_field)
  /\ ef_k = 1
  /\ ef_pc = "loop"
  /\ ef_ret = <<>>
  /\ ef_tried = <<>>
  /\ ef_caught = <<>>
  /\ segIdle /\ citIdle /\ famIdle /\ parseIdle /\ passIdle /\ genIdle /\ fillIdle /\ batchIdle

\* the rule the loop is at, applied to the text
ef_try == TryPattern(FieldRules[ef_field][ef_k], ef_text, strictFlags)

\* a loop without the except clause: the error leaves _extract_field
on_exception_propagates(k) == [pc |-> "error", k |-> k]

\* except Exception: continue
on_exception(k) == [pc |-> "loop", k |-> k + 1]

\* the rule raises (re.error or AttributeError) inside the try
EfRaise ==
  /\ ef_pc = "loop" /\ ef_k <= Len(FieldRules[ef_field])
  /\ ef_try.o = "raise"
  /\ ef_tried' = Append(ef_tried, ef_k)
  /\ ef_caught' = Append(ef_caught, ef_k)
  /\ ef_pc' = on_exception(ef_k).pc
  /\ ef_k' = on_exception(ef_k).k
  /\ UNCHANGED <<strictFlags, ef_text, ef_field, ef_ret, segVars, citVars, famVars, parseVars, passVars, genVars, fillVars, batchVars>>

\* no match, or a capture that is empty or '-': on to the next rule
EfSkip ==
  /\ ef_pc = "loop" /\ ef_k <= Len(FieldRules[ef_field])
  /\ ef_try.o = "next"
  /\ ef_tried' = Append(ef_tried, ef_k)
  /\ ef_k' = ef_k + 1
  /\ UNCHANGED <<strictFlags, ef_text, ef_field, ef_pc, ef_ret, ef_caught,
                 segVars, citVars, famVars, parseVars, passVars, genVars, fillVars, batchVars>>

\* return extracted_value
EfReturn ==
  /\ ef_pc = "loop" /\ ef_k <= Len(FieldRules[ef_field])
  /\ ef_try.o = "return"
  /\ ef_tried' = Append(ef_tried, ef_k)
  /\ ef_ret' = <<ef_try.v>>
  /\ ef_pc' = "done"
  /\ UNCHANGED <<strictFlags, ef_text, ef_field, ef_k, ef_caught, segVars, citVars, famVars, parseVars, passVars, genVars, fillVars, batchVars>>

\* the loop is over: return None
EfExhausted ==
  /\ ef_pc = "loop" /\ ef_k > Len(FieldRules[ef_field])
  /\ ef_ret' = <<>>
  /\ ef_pc' = "done"
  /\ UNCHANGED <<strictFlags, ef_text, ef_field, ef_k, ef_tried, ef_caught,
                 segVars, citVars, famVars, parseVars, passVars, genVars, fillVars, batchVars>>

FieldNext ==
  \/ EfRaise
  \/ EfSkip
  \/ EfReturn
  \/ EfExhausted

FieldSpec == FieldInit /\ [][FieldNext]_vars

-----------------------------------------------------------------------------
(* The section split of _extract_address_info, one action per branch of    *)
(* the body of its loop over the lines.                                    *)

SegLines ==
  {"Current Address", "Permanent Address", "Country: Nepal", "Bank Details",
   "Permanent Residence", "Current Address Bank"}

SegInit ==
  /\ strictFlags = TRUE
  /\ text_lines \in LineSeqs(SegLines, MaxSegLines) \ {<<>>}
  /\ seg_i = 1
  /\ in_current = FALSE
  /\ in_permanent = FALSE
  /\ current_section = <<>>
  /\ permanent_section = <<>>
  /\ seg_last = "start"
  /\ efIdle /\ citIdle /\ famIdle /\ parseIdle /\ passIdle /\ genIdle /\ fillIdle /\ batchIdle

seg_state ==
  [in_current |-> in_current, in_permanent |-> in_permanent,
   current_section |-> current_section, permanent_section |-> permanent_section]

\* the branch that the iteration for line seg_i takes
seg_now == IF seg_i <= Len(text_lines) THEN seg_branch(seg_state, text_lines[seg_i]) ELSE "end"

\* the iteration for line seg_i
SegIteration ==
  /\ in_current' = seg_step(seg_state, text_lines[seg_i], seg_i).in_current
  /\ in_permanent' = seg_step(seg_state, text_lines[seg_i], seg_i).in_permanent
  /\ current_section' = seg_step(seg_state, text_lines[seg_i], seg_i).current_section
  /\ permanent_section' = seg_step(seg_state, text_lines[seg_i], seg_i).permanent_section
  /\ seg_last' = seg_now
  /\ seg_i' = seg_i + 1
  /\ UNCHANGED <<strictFlags, text_lines, efVars, citVars, famVars, parseVars, passVars, genVars, fillVars, batchVars>>

SegCurrentMarker == seg_now = "current_marker" /\ SegIteration

SegPermanentMarker == seg_now = "permanent_marker" /\ SegIteration

SegCurrentLine == seg_now = "current_line" /\ SegIteration

SegPermanentLine == seg_now = "permanent_line" /\ SegIteration

SegSkip == seg_now = "skip" /\ SegIteration

SegNext ==
  \/ SegCurrentMarker
  \/ SegPermanentMarker
  \/ SegCurrentLine
  \/ SegPermanentLine
  \/ SegSkip

SegSpec == SegInit /\ [][SegNext]_vars

-----------------------------------------------------------------------------
(* The citizenship block of _extract_basic_info on the value that          *)
(* _extract_field returned: << >> is None.                                 *)

CitAlphabet == {"1", "9", "2", "0", "-", "a"}

RECURSIVE Strings(_, _)
Strings(alphabet, n) ==
  IF n = 0 THEN {""}
  ELSE Let(Strings(alphabet, n - 1),
           LAMBDA shorter : shorter \cup {str \o c : str \in shorter, c \in alphabet})

CitInputs ==
  {<<>>}
    \cup {<<str>> : str \in Strings(CitAlphabet, MaxCitLen) \ {"", "-"}}
    \cup {<<"2024-05-01">>, <<"1985/01/01">>, <<"19850101">>, <<"123456">>, <<"12-34-56">>,
          <<"1234-56-78">>, <<"1234-5-6">>, <<"No 2024-05-01">>, <<"05-01-2024">>}

CitInit ==
  /\ strictFlags = TRUE
  /\ cit_raw \in CitInputs
  /\ cit_pc = "block"
  /\ cit_data = <<>>
  /\ efIdle /\ segIdle /\ famIdle /\ parseIdle /\ passIdle /\ genIdle /\ fillIdle /\ batchIdle

\* if citizenship: is false
CitNone ==
  /\ cit_pc = "block" /\ cit_raw = <<>>
  /\ cit_data' = citizenship_block(cit_data, cit_raw)
  /\ cit_pc' = "done"
  /\ UNCHANGED <<strictFlags, cit_raw, efVars, segVars, famVars, parseVars, passVars, genVars, fillVars, batchVars>>

\* the value passes the checks: data['citizenship_no'] = citizenship_clean
CitAccept ==
  /\ cit_pc = "block" /\ cit_raw # <<>>
  /\ citizenship_ok(citizenship_clean(cit_raw[1]))
  /\ cit_data' = citizenship_block(cit_data, cit_raw)
  /\ cit_pc' = "done"
  /\ UNCHANGED <<strictFlags, cit_raw, efVars, segVars, famVars, parseVars, passVars, genVars, fillVars, batchVars>>

\* the value fails a check: data is left alone
CitReject ==
  /\ cit_pc = "block" /\ cit_raw # <<>>
  /\ ~citizenship_ok(citizenship_clean(cit_raw[1]))
  /\ cit_data' = citizenship_block(cit_data, cit_raw)
  /\ cit_pc' = "done"
  /\ UNCHANGED <<strictFlags, cit_raw, efVars, segVars, famVars, parseVars, passVars, genVars, fillVars, batchVars>>

CitNext ==
  \/ CitNone
  \/ CitAccept
  \/ CitReject

CitSpec == CitInit /\ [][CitNext]_vars

-----------------------------------------------------------------------------
(* _validate_family_names, statement by statement, on the dict that        *)
(* _extract_family_info built.                                             *)

NamePool == <<"RAM", "SITA", "HARI", "GITA", "UMA">>
Names == {NamePool[i] : i \in 1..MaxNames}
FamilyKeys == {"grandfather_name", "father_name", "mother_name", "spouse_name"}
FamilyDicts == UNION {[K -> Names] : K \in SUBSET FamilyKeys}

FamInit ==
  /\ strictFlags = TRUE
  /\ family_data \in FamilyDicts
  /\ fam_pc = "warn_check"
  /\ fam_warned = 0
  /\ efIdle /\ segIdle /\ citIdle /\ parseIdle /\ passIdle /\ genIdle /\ fillIdle /\ batchIdle

\* father and grandfather are identical: st.warning(...), nothing is deleted
FamWarn ==
  /\ fam_pc = "warn_check" /\ family_warns(family_data)
  /\ fam_warned' = fam_warned + 1
  /\ fam_pc' = "spouse_check"
  /\ UNCHANGED <<strictFlags, family_data, efVars, segVars, citVars, parseVars, passVars, genVars, fillVars, batchVars>>

FamNoWarn ==
  /\ fam_pc = "warn_check" /\ ~family_warns(family_data)
  /\ fam_pc' = "spouse_check"
  /\ UNCHANGED <<strictFlags, family_data, fam_warned, efVars, segVars, citVars, parseVars, passVars, genVars, fillVars, batchVars>>

\* if 'spouse_name' in family_data: is false
FamNoSpouse ==
  /\ fam_pc = "spouse_check" /\ "spouse_name" \notin DOMAIN family_data
  /\ fam_pc' = "return"
  /\ UNCHANGED <<strictFlags, family_data, fam_warned, efVars, segVars, citVars, parseVars, passVars, genVars, fillVars, batchVars>>

\* the first inner if
FamSpouseVsFather ==
  /\ fam_pc = "spouse_check" /\ "spouse_name" \in DOMAIN family_data
  /\ family_data' = spouse_vs_father(family_data)
  /\ fam_pc' = "mother_check"
  /\ UNCHANGED <<strictFlags, fam_warned, efVars, segVars, citVars, parseVars, passVars, genVars, fillVars, batchVars>>

\* the second inner if, when its condition can be evaluated
FamSpouseVsMother ==
  /\ fam_pc = "mother_check" /\ ~spouse_vs_mother_raises(family_data)
  /\ family_data' = spouse_vs_mother(family_data)
  /\ fam_pc' = "return"
  /\ UNCHANGED <<strictFlags, fam_warned, efVars, segVars, citVars, parseVars, passVars, genVars, fillVars, batchVars>>

\* the second inner if reads the key that the first one deleted
FamKeyError ==
  /\ fam_pc = "mother_check" /\ spouse_vs_mother_raises(family_data)
  /\ fam_pc' = "raised"
  /\ UNCHANGED <<strictFlags, family_data, fam_warned, efVars, segVars, citVars, parseVars, passVars, genVars, fillVars, batchVars>>

FamNext ==
  \/ FamWarn
  \/ FamNoWarn
  \/ FamNoSpouse
  \/ FamSpouseVsFather
  \/ FamSpouseVsMother
  \/ FamKeyError

FamSpec == FamInit /\ [][FamNext]_vars

-----------------------------------------------------------------------------
(* Two passes of parse_data on one DataParser, interleaved between the     *)
(* statements of its body.  Of the catalogue the state holds its keys: the *)
(* rule lists under them are the constants above.                          *)

Passes == {"a", "b"}

\* the keys of self.patterns after __init__
catalog_keys ==
  {"name", "date_of_birth", "gender", "citizenship_no", "beneficiary_id", "pan_no",
   "issue_district", "issue_date", "national_id", "current_address", "permanent_address",
   "family_members", "bank_details", "occupation", "money_laundering", "guardian_details",
   "minor_contact", "temporary_address", "financial_details"}

\* the keys of self.patterns that the statement at st looks up
reads(st) ==
  CASE st = "call" -> {"name", "date_of_birth", "gender", "citizenship_no", "beneficiary_id",
                       "pan_no", "issue_district", "issue_date", "national_id"}
    [] st = "address" -> {"current_address", "permanent_address"}
    [] st = "bank" -> {"bank_details"}
    [] st = "occupation" -> {"occupation"}
    [] st = "guardian" -> {"guardian_details"}
    [] st = "minor" -> {"minor_contact"}
    [] st = "temporary" -> {"temporary_address"}
    [] st = "financial" -> {"financial_details"}
    [] st = "family" -> {"family_members"}
    [] st = "laundering" -> {"money_laundering"}
    [] OTHER -> {}

\* the statements of the try block, in order
statements ==
  <<"call", "address", "bank", "occupation", "guardian", "minor", "temporary", "financial",
    "family", "validate", "laundering", "return">>

next_statement(st) == statements[(CHOOSE i \in 1..Len(statements) : statements[i] = st) + 1]

\* the statements that end with parsed_data.update(...)
merging == {"call", "address", "bank", "occupation", "guardian", "minor", "temporary",
            "financial", "validate", "laundering"}

\* what the call of the statement at st returns (validate: what it returns or raises)
sub_output(st, txt, fd) ==
  CASE st = "call" -> [raised |-> FALSE, data |-> extract_basic_info(txt)]
    [] st = "address" -> [raised |-> FALSE, data |-> extract_address_info(txt)]
    [] st = "bank" -> [raised |-> FALSE, data |-> extract_bank_info(txt)]
    [] st = "occupation" -> [raised |-> FALSE, data |-> extract_occupation_info(txt)]
    [] st = "guardian" -> [raised |-> FALSE, data |-> extract_guardian_info(txt)]
    [] st = "minor" -> [raised |-> FALSE, data |-> extract_minor_contact_info(txt)]
    [] st = "temporary" -> [raised |-> FALSE, data |-> extract_temporary_address_info(txt)]
    [] st = "financial" -> [raised |-> FALSE, data |-> extract_financial_info(txt)]
    [] st = "validate" -> [raised |-> validate_family_names(fd).raised,
                           data |-> validate_family_names(fd).data]
    [] st = "laundering" -> [raised |-> FALSE, data |-> extract_money_laundering_info(txt)]

\* a sub-extractor that takes the lists it looked up out of the catalogue
patterns_after_pop(keys, st) == keys \ reads(st)

\* self.patterns after a statement: every use of it is a lookup, none an assignment
patterns_after(keys, st) == keys

\* one record kept on the parser for all its calls
record_slot_on_self(p) == "a"

\* parsed_data is a local of parse_data: every call has its own
record_slot(p) == p

\* the empty text, one on which the validator raises, and two with records of their own
PassDocs == {"", FamilyDoc, "Occupation: Teacher", "Father's Name: RAM\nSpouse's Name: RAM"}

\* the passes of one process run on one build
PassInit ==
  /\ strictFlags = TRUE
  /\ self_patterns = catalog_keys
  /\ p_text \in [Passes -> PassDocs]
  /\ p_pc = [p \in Passes |-> "call"]
  /\ p_slot = [p \in Passes |-> <<>>]
  /\ p_fam = [p \in Passes |-> <<>>]
  /\ p_result = [p \in Passes |-> <<>>]
  /\ p_after = [p \in Passes |-> FALSE]
  /\ efIdle /\ segIdle /\ citIdle /\ famIdle /\ parseIdle /\ genIdle /\ fillIdle /\ batchIdle

\* p_after once pass p has taken a step
after_step(p) ==
  IF p_pc[p] = "call"
  THEN [p_after EXCEPT ![p] = \A q \in Passes \ {p} : p_pc[q] = "done"]
  ELSE p_after

\* the statement raises: a key that self.patterns does not hold, or the validator
raises(p) ==
  \/ ~(reads(p_pc[p]) \subseteq self_patterns)
  \/ p_pc[p] = "validate" /\ validate_family_names(p_fam[p]).raised

\* if not text: return {}
PassEmpty(p) ==
  /\ p_pc[p] = "call" /\ p_text[p] = ""
  /\ p_result' = [p_result EXCEPT ![p] = <<>>]
  /\ p_pc' = [p_pc EXCEPT ![p] = "done"]
  /\ p_after' = after_step(p)
  /\ UNCHANGED <<strictFlags, self_patterns, p_text, p_slot, p_fam,
                 efVars, segVars, citVars, famVars, parseVars, genVars, fillVars, batchVars>>

\* parsed_data.update(self._extract_..._info(text)); the first one follows parsed_data = {}
PassMerge(p) ==
  /\ p_pc[p] \in merging /\ p_text[p] # ""
  /\ ~raises(p)
  /\ p_slot' = [p_slot EXCEPT ![record_slot(p)] =
                  update(IF p_pc[p] = "call" THEN <<>> ELSE @,
                         sub_output(p_pc[p], p_text[p], p_fam[p]).data)]
  /\ self_patterns' = patterns_after(self_patterns, p_pc[p])
  /\ p_pc' = [p_pc EXCEPT ![p] = next_statement(@)]
  /\ p_after' = after_step(p)
  /\ UNCHANGED <<strictFlags, p_text, p_fam, p_result,
                 efVars, segVars, citVars, famVars, parseVars, genVars, fillVars, batchVars>>

\* family_data = self._extract_family_info(text)
PassFamily(p) ==
  /\ p_pc[p] = "family"
  /\ ~raises(p)
  /\ p_fam' = [p_fam EXCEPT ![p] = extract_family_info(p_text[p])]
  /\ self_patterns' = patterns_after(self_patterns, p_pc[p])
  /\ p_pc' = [p_pc EXCEPT ![p] = next_statement(@)]
  /\ UNCHANGED <<strictFlags, p_text, p_slot, p_result, p_after,
                 efVars, segVars, citVars, famVars, parseVars, genVars, fillVars, batchVars>>

\* except Exception: return {}
PassRaise(p) ==
  /\ p_pc[p] \in merging \cup {"family"} /\ p_text[p] # ""
  /\ raises(p)
  /\ p_result' = [p_result EXCEPT ![p] = <<>>]
  /\ p_pc' = [p_pc EXCEPT ![p] = "done"]
  /\ p_after' = after_step(p)
  /\ UNCHANGED <<strictFlags, self_patterns, p_text, p_slot, p_fam,
                 efVars, segVars, citVars, famVars, parseVars, genVars, fillVars, batchVars>>

\* return parsed_data
PassReturn(p) ==
  /\ p_pc[p] = "return"
  /\ p_result' = [p_result EXCEPT ![p] = p_slot[record_slot(p)]]
  /\ p_pc' = [p_pc EXCEPT ![p] = "done"]
  /\ UNCHANGED <<strictFlags, self_patterns, p_text, p_slot, p_fam, p_after,
                 efVars, segVars, citVars, famVars, parseVars, genVars, fillVars, batchVars>>

PassNext ==
  \E p \in Passes :
    \/ PassEmpty(p)
    \/ PassMerge(p)
    \/ PassFamily(p)
    \/ PassRaise(p)
    \/ PassReturn(p)

PassSpec == PassInit /\ [][PassNext]_vars

-----------------------------------------------------------------------------
(* The gender block of _extract_basic_info on the value that               *)
(* _extract_field returned: a stripped string that is neither '' nor '-',  *)
(* or << >> for None.                                                      *)

GenAlphabet == {"M", "m", "F", "f", "a", "e", "x"}

GenWords ==
  {"Male", "MALE", "male", "mAlE", "Female", "FEMALE", "female", "feMale", "Other", "Males",
   "Fe male", "k\\w*if", "K\\W*IF", "dlxnf", "DLXNF"}

GenInputs ==
  {<<>>} \cup {<<str>> : str \in (Strings(GenAlphabet, MaxGenLen) \ {""}) \cup GenWords}

GenInit ==
  /\ strictFlags = TRUE
  /\ gen_raw \in GenInputs
  /\ gen_pc = "block"
  /\ gen_data = <<>>
  /\ efIdle /\ segIdle /\ citIdle /\ famIdle /\ parseIdle /\ passIdle /\ fillIdle /\ batchIdle

\* if gender: is false
GenNone ==
  /\ gen_pc = "block" /\ gen_raw = <<>>
  /\ gen_data' = gender_block(gen_data, gen_raw)
  /\ gen_pc' = "done"
  /\ UNCHANGED <<strictFlags, gen_raw, efVars, segVars, citVars, famVars, parseVars, passVars,
                 fillVars, batchVars>>

\* data['gender'] = 'Male'
GenMale ==
  /\ gen_pc = "block" /\ gen_raw # <<>>
  /\ upper(gen_raw[1]) \in {"M", "MALE", "k\\w*if"}
  /\ gen_data' = gender_block(gen_data, gen_raw)
  /\ gen_pc' = "done"
  /\ UNCHANGED <<strictFlags, gen_raw, efVars, segVars, citVars, famVars, parseVars, passVars,
                 fillVars, batchVars>>

\* data['gender'] = 'Female'
GenFemale ==
  /\ gen_pc = "block" /\ gen_raw # <<>>
  /\ upper(gen_raw[1]) \notin {"M", "MALE", "k\\w*if"}
  /\ upper(gen_raw[1]) \in {"F", "FEMALE", "dlxnf"}
  /\ gen_data' = gender_block(gen_data, gen_raw)
  /\ gen_pc' = "done"
  /\ UNCHANGED <<strictFlags, gen_raw, efVars, segVars, citVars, famVars, parseVars, passVars,
                 fillVars, batchVars>>

\* data['gender'] = gender.strip()
GenOther ==
  /\ gen_pc = "block" /\ gen_raw # <<>>
  /\ upper(gen_raw[1]) \notin {"M", "MALE", "k\\w*if", "F", "FEMALE", "dlxnf"}
  /\ gen_data' = gender_block(gen_data, gen_raw)
  /\ gen_pc' = "done"
  /\ UNCHANGED <<strictFlags, gen_raw, efVars, segVars, citVars, famVars, parseVars, passVars,
                 fillVars, batchVars>>

GenNext ==
  \/ GenNone
  \/ GenMale
  \/ GenFemale
  \/ GenOther

GenderSpec == GenInit /\ [][GenNext]_vars

-----------------------------------------------------------------------------
(* FormFiller._prepare_field_updates (src/form_filler.py), one action per  *)
(* block of its body.  parsed_data is a record parse_data can return;      *)
(* field_updates maps the names of the form's fields to their new values.  *)

\* self.field_mapping, the text fields
field_mapping ==
  [name |-> "Name In Block Letter", date_of_birth |-> "O    A D", gender |-> "Gender",
   citizenship_no |-> "Citizenship Number", beneficiary_id |-> "Beneficiary ID Number",
   pan_no |-> "PAN", national_id |-> "National ID Number", issue_district |-> "IssueDistrict",
   issue_date |-> "hfL ldlt Issue Date",
   current_country |-> "Current Address Country", current_province |-> "Current Address Province",
   current_district |-> "Current Address District",
   current_municipality |-> "Current Address Municipality",
   current_ward_no |-> "Current Address Ward Number", current_tole |-> "Current Address Tole",
   current_telephone |-> "Telephone Number", current_mobile |-> "Mobile Number",
   current_email |-> "Email Address",
   permanent_country |-> "Permanent Address Country",
   permanent_province |-> "Permanent Address Province",
   permanent_district |-> "Permanent Address District",
   permanent_municipality |-> "Permanent municipality",
   permanent_ward_no |-> "Permanent Ward Number", permanent_tole |-> "Permanent Address Tole",
   permanent_telephone |-> "Permanent Telephone Number",
   permanent_block_no |-> "Permanent Block Number",
   income_limit |-> "Financial Details",
   father_name |-> "Father", mother_name |-> "Mother", grandfather_name |-> "GrandFather",
   spouse_name |-> "Spouses Name", son_name |-> "Son", daughter_name |-> "Daughter",
   daughter_in_law_name |-> "DaughterInLawName", father_in_law_name |-> "Father in Laws Name",
   mother_in_law_name |-> "Mother in Laws Name",
   bank_account_number |-> "Bank Account Number", bank_name |-> "Bank Name and Address",
   organization_name |-> "Organization's Name", designation |-> "Designation",
   guardian_name |-> "NameSurname  In Block letter",
   guardian_relationship |-> "Relationship with applicant",
   minor_telephone |-> "Minor Telephone No", minor_mobile |-> "Minor Mobile No"]

\* self.field_mapping['occupation'], the nested mapping
nested_field_mapping == [business_type |-> "TypeOfBusiness"]

\* self.business_type_mapping and self.occupation_mapping, in the order of their items
business_type_mapping ==
  <<<<"manufacturing", "Manufacturing">>, <<"service oriented", "Check">>,
    <<"others", "Check Box12">>>>

occupation_mapping ==
  <<<<"agriculture", "Agriculture">>, <<"business", "Businessperson">>, <<"service", "Govt">>,
    <<"student", "Student">>, <<"retired", "Retired">>, <<"housewife", "House Wife">>,
    <<"foreign", "Foreign Employment">>, <<"public", "Public/Private Sector">>,
    <<"private", "Public/Private Sector">>, <<"ngo", "NGO/INGO">>, <<"ingo", "NGO/INGO">>,
    <<"expert", "Expert">>, <<"others", "Other Occupation">>,
    <<"self_employed", "Self Employed">>>>

\* the elif chain over the occupation: the keywords of each branch and its checkbox
occupation_chain ==
  <<<<{"agriculture"}, "Agriculture">>, <<{"business"}, "Businessperson">>,
    <<{"expert"}, "Expert">>, <<{"others"}, "Other Occupation">>,
    <<{"service", "govt"}, "Govt">>, <<{"student"}, "Student">>, <<{"retired"}, "Retired">>,
    <<{"house", "wife"}, "House Wife">>, <<{"foreign", "employment"}, "Foreign Employment">>,
    <<{"public", "private"}, "Public/Private Sector">>, <<{"ngo", "ingo"}, "NGO/INGO">>>>

\* the questionnaire's keys with their yes and no checkboxes
laundering_boxes ==
  [politician_or_high_ranking_person |-> <<"Rajniti/padh yes", "Rajniti/padh no">>,
   related_to_politician_or_high_ranking_official |->
     <<"Rajniti/padh sambandha yes", "Rajniti/padh sambandha no">>,
   have_a_beneficiary |-> <<"hitadhikari yes", "hitadhikari no">>,
   convicted_of_felony |-> <<"Dosh yes", "Dosh no">>]

\* the loop over self.field_mapping, without the occupation checkboxes in its body
text_fields(pd, fu) ==
  Let([key \in DOMAIN field_mapping \cup DOMAIN nested_field_mapping |->
         IF key \in DOMAIN field_mapping THEN field_mapping[key] ELSE nested_field_mapping[key]],
      LAMBDA mapping :
        Let({key \in DOMAIN mapping \cap DOMAIN pd : strip(pd[key]) \notin {"", "-"}},
            LAMBDA keys :
              update(fu, [pdf_field_name \in {mapping[key] : key \in keys} |->
                            strip(pd[CHOOSE key \in keys : mapping[key] = pdf_field_name])])))

\* occupation = re.sub(r'\s+', ' ', str(...).lower().strip()), with the fallback to sector
occupation_text(pd) ==
  Let(collapseSpace(strip(lower(IF "occupation" \in DOMAIN pd THEN pd["occupation"] ELSE ""))),
      LAMBDA occupation :
        IF occupation \in {"occupation", ""} /\ "sector" \in DOMAIN pd
        THEN collapseSpace(strip(lower(pd["sector"])))
        ELSE occupation)

\* the occupation checkboxes in the body of the loop over self.field_mapping
occupation_boxes(pd, fu) ==
  IF "occupation" \notin DOMAIN pd THEN fu
  ELSE Let(First(LAMBDA k : IF contains(occupation_text(pd), occupation_mapping[k][1])
                            THEN <<occupation_mapping[k][2]>> ELSE <<>>,
                 1, Len(occupation_mapping)),
           LAMBDA field : IF field = <<>> THEN fu ELSE put(fu, field[1], "Yes"))

\* the gender checkboxes
gender_boxes(pd, fu) ==
  IF "gender" \notin DOMAIN pd THEN fu
  ELSE IF upper(pd["gender"]) \in {"M", "MALE"}
       THEN put(put(fu, "MaleCheck", "Yes"), "FemaleCheck", "Off")
  ELSE IF upper(pd["gender"]) \in {"F", "FEMALE"}
       THEN put(put(fu, "FemaleCheck", "Yes"), "MaleCheck", "Off")
  ELSE fu

\* the bank account type checkboxes
account_boxes(pd, fu) ==
  IF "bank_account_type" \notin DOMAIN pd THEN fu
  ELSE IF contains(lower(pd["bank_account_type"]), "saving")
       THEN put(put(fu, "Saving Account", "Yes"), "Current Account", "Off")
  ELSE IF contains(lower(pd["bank_account_type"]), "current")
       THEN put(put(fu, "Current Account", "Yes"), "Saving Account", "Off")
  ELSE fu

income_names == <<"upto 5,00,000", "from rs. 5,00,001 to rs. 10,00,000", "above rs. 10,00,000">>

income_fields == <<"Upto 5,00,000", "From Rs. 5,00,001 to Rs. 10,00,000", "Above Rs. 10,00,000">>

\* three ifs that each tick their own checkbox
income_boxes_each_on_its_own(pd, fu) ==
  update(fu, [field \in {income_fields[k] : k \in {j \in 1..3 : contains(lower(pd["income_limit"]),
                                                                         income_names[j])}}
                |-> "Yes"])

\* the if/elif chain over income_limit: the first name found is ticked, the others cleared
income_boxes(pd, fu) ==
  Let(First(LAMBDA k : IF contains(lower(pd["income_limit"]), income_names[k]) THEN <<k>> ELSE <<>>,
            1, 3),
      LAMBDA hit :
        IF hit = <<>> THEN fu
        ELSE update(fu, [field \in Range(income_fields) |->
                           IF field = income_fields[hit[1]] THEN "Yes" ELSE "Off"]))

\* the elif chain over the occupation
occupation_chain_boxes(pd, fu) ==
  Let(First(LAMBDA k : IF \E word \in occupation_chain[k][1] : contains(occupation_text(pd), word)
                       THEN <<occupation_chain[k][2]>> ELSE <<>>,
            1, Len(occupation_chain)),
      LAMBDA field : IF field = <<>> THEN fu ELSE put(fu, field[1], "Yes"))

\* the four ifs of the questionnaire
money_laundering_boxes(pd, fu) ==
  update(fu,
         [field \in UNION {Range(laundering_boxes[key]) : key \in DOMAIN laundering_boxes \cap DOMAIN pd}
            |-> Let(CHOOSE key \in DOMAIN laundering_boxes : field \in Range(laundering_boxes[key]),
                    LAMBDA key : IF (pd[key] = "Yes") = (field = laundering_boxes[key][1])
                                 THEN "Yes" ELSE "Off")])

\* the body of if 'income_limit' in parsed_data:
income_limit_block(pd, fu) ==
  money_laundering_boxes(pd, occupation_chain_boxes(pd, income_boxes(pd, fu)))

\* the business type checkboxes
business_type_boxes(pd, fu) ==
  IF "business_type" \notin DOMAIN pd THEN fu
  ELSE Let(First(LAMBDA k : IF lower(strip(pd["business_type"])) = business_type_mapping[k][1]
                            THEN <<business_type_mapping[k][2]>> ELSE <<>>,
                 1, Len(business_type_mapping)),
           LAMBDA field_name :
             IF field_name = <<>> THEN fu
             ELSE update(fu, [other_field \in {business_type_mapping[k][2] : k \in 1..3} |->
                                IF field_name[1] = other_field THEN "Yes" ELSE "Off"]))

\* the values a key of the record can have
FillOptions ==
  [name |-> {"RAM"},
   gender |-> {"Male", "Female"},
   bank_account_type |-> {"Saving", "current"},
   income_limit |-> {"Upto 5,00,000", "From Rs. 5,00,001 to Rs. 10,00,000", "Above Rs. 10,00,000",
                     "Upto 5,00,000 Above Rs. 10,00,000", "12,00,000"},
   occupation |-> {"Student", "Business Service", "Occupation"},
   sector |-> {"Agriculture"},
   business_type |-> {"Manufacturing", "Others", "Trading"},
   politician_or_high_ranking_person |-> {"Yes", "No"},
   related_to_politician_or_high_ranking_official |-> {"Yes", "No"},
   have_a_beneficiary |-> {"Yes", "No", "yes"},
   convicted_of_felony |-> {"Yes", "No"}]

\* the records with at most n of the keys
RECURSIVE RecordsOver(_, _)
RecordsOver(keys, n) ==
  IF n = 0 \/ keys = {} THEN {<<>>}
  ELSE Let(CHOOSE key \in keys : TRUE,
           LAMBDA key :
             RecordsOver(keys \ {key}, n)
               \cup {put(r, key, v) : r \in RecordsOver(keys \ {key}, n - 1), v \in FillOptions[key]})

FillInit ==
  /\ strictFlags = TRUE
  /\ fu_parsed_data \in RecordsOver(DOMAIN FillOptions, MaxRecordKeys)
  /\ fu_pc = "text"
  /\ field_updates = <<>>
  /\ efIdle /\ segIdle /\ citIdle /\ famIdle /\ parseIdle /\ passIdle /\ genIdle /\ batchIdle

FillStep(updates, next) ==
  /\ field_updates' = updates
  /\ fu_pc' = next
  /\ UNCHANGED <<strictFlags, fu_parsed_data, efVars, segVars, citVars, famVars, parseVars,
                 passVars, genVars, batchVars>>

\* for data_key, pdf_field_name in self.field_mapping.items(): ...
FillTextFields ==
  /\ fu_pc = "text"
  /\ FillStep(occupation_boxes(fu_parsed_data, text_fields(fu_parsed_data, field_updates)), "gender")

\* if 'gender' in parsed_data: ...
FillGender ==
  /\ fu_pc = "gender"
  /\ FillStep(gender_boxes(fu_parsed_data, field_updates), "account")

\* if 'bank_account_type' in parsed_data: ...
FillAccount ==
  /\ fu_pc = "account"
  /\ FillStep(account_boxes(fu_parsed_data, field_updates), "income")

\* if 'income_limit' in parsed_data: the block down to the questionnaire's checkboxes
FillIncomeLimit ==
  /\ fu_pc = "income" /\ "income_limit" \in DOMAIN fu_parsed_data
  /\ FillStep(income_limit_block(fu_parsed_data, field_updates), "business")

\* 'income_limit' is not in parsed_data: the block is skipped
FillNoIncomeLimit ==
  /\ fu_pc = "income" /\ "income_limit" \notin DOMAIN fu_parsed_data
  /\ FillStep(field_updates, "business")

\* if 'business_type' in parsed_data: ...
FillBusinessType ==
  /\ fu_pc = "business"
  /\ FillStep(business_type_boxes(fu_parsed_data, field_updates), "return")

\* return field_updates
FillReturn ==
  /\ fu_pc = "return"
  /\ FillStep(field_updates, "done")

FillNext ==
  \/ FillTextFields
  \/ FillGender
  \/ FillAccount
  \/ FillIncomeLimit
  \/ FillNoIncomeLimit
  \/ FillBusinessType
  \/ FillReturn

FillSpec == FillInit /\ [][FillNext]_vars

-----------------------------------------------------------------------------
(* The batch loop of main (src/main.py), one action per way through the    *)
(* body of the loop.  A document is named by its position in the upload.   *)
(* Of a document the state holds the text that extract_text returns for    *)
(* it ('' when it has none or the extraction failed) and what becomes of   *)
(* the calls made for it:                                                  *)
(*   "none"           no call fails                                        *)
(*   "fill_none"      fill_template_with_default returns None              *)
(*   "raise_extract"  an exception leaves the statements of lines 82 to 84 *)
(*   "raise_fill"     an exception leaves the statements of lines 98 to 103 *)

\* parsed_data after parsed_data.update(outputs[1]), ..., parsed_data.update(outputs[n])
updates(outputs) ==
  [key \in UNION {DOMAIN outputs[k] : k \in 1..Len(outputs)} |->
     outputs[CHOOSE k \in 1..Len(outputs) :
               key \in DOMAIN outputs[k] /\ \A j \in (k + 1)..Len(outputs) : key \notin DOMAIN outputs[j]][key]]

\* data_parser.parse_data(text): the record it returns, {} after an exception
parse_data(txt) ==
  IF txt = "" THEN <<>>
  ELSE IF validate_family_names(extract_family_info(txt)).raised THEN <<>>
  ELSE updates(<<extract_basic_info(txt), extract_address_info(txt), extract_bank_info(txt),
                 extract_occupation_info(txt), extract_guardian_info(txt),
                 extract_minor_contact_info(txt), extract_temporary_address_info(txt),
                 extract_financial_info(txt),
                 validate_family_names(extract_family_info(txt)).data,
                 extract_money_laundering_info(txt)>>)

\* no text, a text with a field of the form, and a text with none
BatchTexts == {"", "Gender: M", "Invoice 42"}

Faults == {"none", "fill_none", "raise_extract", "raise_fill"}

Documents == [text : BatchTexts, fault : Faults]

BatchInit ==
  /\ strictFlags = TRUE
  /\ data_parser = [txt \in BatchTexts |-> parse_data(txt)]
  /\ source_files \in LineSeqs(Documents, MaxFiles) \ {<<>>}
  /\ b_i = 1
  /\ b_pc = "extract"
  /\ extracted_text = ""
  /\ b_parsed_data = <<>>
  /\ processed_files = <<>>
  /\ status_log = <<>>
  /\ error_log = <<>>
  /\ efIdle /\ segIdle /\ citIdle /\ famIdle /\ parseIdle /\ passIdle /\ genIdle /\ fillIdle

\* a continue that ends the loop
after_continue_leaves_loop(i) == Len(source_files) + 1

\* continue: the position of the next iteration
after_continue(i) == i + 1

\* the loop is at position i: the statement it is at
loop_at(i) == IF i > Len(source_files) THEN "done" ELSE "extract"

\* status_text.text(...); extracted_text = pdf_processor.extract_text(source_file)
BatchExtract ==
  /\ b_pc = "extract" /\ source_files[b_i].fault # "raise_extract"
  /\ status_log' = Append(status_log, b_i)
  /\ extracted_text' = source_files[b_i].text
  /\ b_pc' = "text"
  /\ UNCHANGED <<strictFlags, source_files, data_parser, b_i, b_parsed_data, processed_files, error_log,
                 efVars, segVars, citVars, famVars, parseVars, passVars, genVars, fillVars>>

\* the same statements raise: except Exception as e: st.error(...)
BatchExtractRaises ==
  /\ b_pc = "extract" /\ source_files[b_i].fault = "raise_extract"
  /\ status_log' = Append(status_log, b_i)
  /\ error_log' = Append(error_log, b_i)
  /\ b_pc' = "progress"
  /\ UNCHANGED <<strictFlags, source_files, data_parser, b_i, extracted_text, b_parsed_data, processed_files,
                 efVars, segVars, citVars, famVars, parseVars, passVars, genVars, fillVars>>

\* if not extracted_text.strip(): st.error(...); continue
BatchNoText ==
  /\ b_pc = "text" /\ strip(extracted_text) = ""
  /\ error_log' = Append(error_log, b_i)
  /\ b_i' = after_continue(b_i)
  /\ b_pc' = loop_at(after_continue(b_i))
  /\ UNCHANGED <<strictFlags, source_files, data_parser, extracted_text, b_parsed_data, processed_files,
                 status_log,
                 efVars, segVars, citVars, famVars, parseVars, passVars, genVars, fillVars>>

\* parsed_data = data_parser.parse_data(extracted_text)
BatchParse ==
  /\ b_pc = "text" /\ strip(extracted_text) # ""
  /\ b_parsed_data' = data_parser[extracted_text]
  /\ b_pc' = "record"
  /\ UNCHANGED <<strictFlags, source_files, data_parser, b_i, extracted_text, processed_files, status_log,
                 error_log,
                 efVars, segVars, citVars, famVars, parseVars, passVars, genVars, fillVars>>

\* if not parsed_data: st.error(...); continue
BatchNoRecord ==
  /\ b_pc = "record" /\ b_parsed_data = <<>>
  /\ error_log' = Append(error_log, b_i)
  /\ b_i' = after_continue(b_i)
  /\ b_pc' = loop_at(after_continue(b_i))
  /\ UNCHANGED <<strictFlags, source_files, data_parser, extracted_text, b_parsed_data, processed_files,
                 status_log,
                 efVars, segVars, citVars, famVars, parseVars, passVars, genVars, fillVars>>

\* filled_pdf = form_filler.fill_template_with_default(parsed_data); if filled_pdf:
\* st.session_state.processed_files.append({...})
BatchStore ==
  /\ b_pc = "record" /\ b_parsed_data # <<>>
  /\ source_files[b_i].fault \notin {"fill_none", "raise_fill"}
  /\ processed_files' = Append(processed_files,
                               [original_name |-> b_i, pdf_data |-> "pdf",
                                parsed_data |-> b_parsed_data])
  /\ b_pc' = "progress"
  /\ UNCHANGED <<strictFlags, source_files, data_parser, b_i, extracted_text, b_parsed_data, status_log,
                 error_log,
                 efVars, segVars, citVars, famVars, parseVars, passVars, genVars, fillVars>>

\* filled_pdf is None: else: st.error(...)
BatchFillFailed ==
  /\ b_pc = "record" /\ b_parsed_data # <<>>
  /\ source_files[b_i].fault = "fill_none"
  /\ error_log' = Append(error_log, b_i)
  /\ b_pc' = "progress"
  /\ UNCHANGED <<strictFlags, source_files, data_parser, b_i, extracted_text, b_parsed_data, processed_files,
                 status_log,
                 efVars, segVars, citVars, famVars, parseVars, passVars, genVars, fillVars>>

\* the statements after the record check raise: except Exception as e: st.error(...)
BatchFillRaises ==
  /\ b_pc = "record" /\ b_parsed_data # <<>>
  /\ source_files[b_i].fault = "raise_fill"
  /\ error_log' = Append(error_log, b_i)
  /\ b_pc' = "progress"
  /\ UNCHANGED <<strictFlags, source_files, data_parser, b_i, extracted_text, b_parsed_data, processed_files,
                 status_log,
                 efVars, segVars, citVars, famVars, parseVars, passVars, genVars, fillVars>>

\* progress_bar.progress(...), and the next iteration
BatchProgress ==
  /\ b_pc = "progress"
  /\ b_i' = b_i + 1
  /\ b_pc' = loop_at(b_i + 1)
  /\ UNCHANGED <<strictFlags, source_files, data_parser, extracted_text, b_parsed_data, processed_files,
                 status_log, error_log,
                 efVars, segVars, citVars, famVars, parseVars, passVars, genVars, fillVars>>

BatchNext ==
  \/ BatchExtract
  \/ BatchExtractRaises
  \/ BatchNoText
  \/ BatchParse
  \/ BatchNoRecord
  \/ BatchStore
  \/ BatchFillFailed
  \/ BatchFillRaises
  \/ BatchProgress

\* the loop is one thread of control: it takes its next step whenever it has one
BatchSpec == BatchInit /\ [][BatchNext]_vars /\ WF_vars(BatchNext)

-----------------------------------------------------------------------------
(* The properties.                                                         *)

\* the record that parse_data returned, once it has returned
Returned == pc = "done"

\* C1: every key of the record that parse_data returns has a value that is a non-empty
\* string and is not the placeholder "-"
C1_EveryValueIsUsable ==
  Returned => \A key \in DOMAIN result : result[key] # "" /\ result[key] # "-"

\* what rule k of the field alone captures from the text: <<the trimmed capture>> when it
\* compiles, matches, and its group 1 is neither empty nor "-", and << >> otherwise
RuleCapture(k) ==
  IF FieldRules[ef_field][k].bad \/ (FieldRules[ef_field][k].iflag /\ strictFlags) THEN <<>>
  ELSE Let(Search(FieldRules[ef_field][k], ef_text),
           LAMBDA m : IF m.m = "group" /\ strip(m.v) \notin {"", "-"} THEN <<strip(m.v)>> ELSE <<>>)

GoodRules == {k \in 1..Len(FieldRules[ef_field]) : RuleCapture(k) # <<>>}

LeastOf(set) == CHOOSE k \in set : \A j \in set : k <= j

\* C2: _extract_field tries the rules in declaration order and returns the trimmed capture
\* of the lowest-index rule whose capture is neither empty nor "-", and not-found when no
\* rule has such a capture
C2_FirstGoodRuleWins ==
  ef_pc = "done" =>
    IF GoodRules = {}
    THEN ef_ret = <<>> /\ ef_tried = [i \in 1..Len(FieldRules[ef_field]) |-> i]
    ELSE ef_ret = RuleCapture(LeastOf(GoodRules)) /\ ef_tried = [i \in 1..LeastOf(GoodRules) |-> i]

\* two rules capture distinct substrings and the call returned the first rule's capture
C2_RuleOrderDecides ==
  /\ ef_pc = "done"
  /\ \E j, k \in GoodRules : j < k /\ RuleCapture(j) # RuleCapture(k) /\ ef_ret = RuleCapture(j)

\* C3: a rule that raises during matching is skipped: the error never leaves
\* _extract_field, the remaining rules are still tried in order, and the call returns the
\* capture of the next rule that succeeds, or not-found when none does
C3_RaisingRuleIsSkipped ==
  /\ ef_pc # "error"
  /\ ef_pc = "done" =>
       \A k \in Range(ef_caught) :
         IF \E j \in GoodRules : j > k
         THEN /\ ef_ret = RuleCapture(LeastOf({j \in GoodRules : j > k}))
              /\ \A j \in (k + 1)..LeastOf({j \in GoodRules : j > k}) : j \in Range(ef_tried)
         ELSE ef_ret = <<>> /\ \A j \in (k + 1)..Len(FieldRules[ef_field]) : j \in Range(ef_tried)

\* a rule raised and a later rule gave the value
C3_RaisedThenFound == ef_pc = "done" /\ ef_caught # <<>> /\ ef_ret # <<>>

\* the block of line n: the kind of the last heading at or above it
IsHeading(line) ==
  contains(lower(line), "current address") \/ contains(lower(line), "permanent address")

HeadingKind(line) == IF contains(lower(line), "permanent address") THEN "permanent" ELSE "current"

BlockOf(n) ==
  Let({m \in 1..n : IsHeading(text_lines[m])},
      LAMBDA heads : IF heads = {} THEN "none"
                     ELSE HeadingKind(text_lines[CHOOSE m \in heads : \A j \in heads : j <= m]))

IsCountryLine(n) == startswith(text_lines[n], "Country:")

\* C4: the current-address view never holds a Country line of the permanent block, and the
\* permanent-address view never holds a Country line of the current block
C4_ViewsKeepToTheirBlock ==
  \A n \in 1..Len(text_lines) :
    IsCountryLine(n) =>
      /\ BlockOf(n) = "permanent" => n \notin Range(current_section)
      /\ BlockOf(n) = "current" => n \notin Range(permanent_section)

\* both blocks hold a Country line, the split is over, and each view holds its own
C4_BothBlocksSplit ==
  /\ seg_i > Len(text_lines)
  /\ \E m, n \in 1..Len(text_lines) :
       /\ IsCountryLine(m) /\ BlockOf(m) = "current" /\ m \in Range(current_section)
       /\ IsCountryLine(n) /\ BlockOf(n) = "permanent" /\ n \in Range(permanent_section)

AddressFields == {"country", "province"}

\* C5: every current_* value of the record is text of the current-address view and every
\* permanent_* value is text of the permanent-address view
C5_AddressValuesComeFromTheirView ==
  Returned =>
    \A field \in AddressFields :
      /\ ("current_" \o field) \in DOMAIN result =>
           contains(current_text(text), result["current_" \o field])
      /\ ("permanent_" \o field) \in DOMAIN result =>
           contains(permanent_text(text), result["permanent_" \o field])

\* the extracted spouse name is the extracted father name or the extracted mother name
SpouseIsAParent(fd) ==
  /\ "spouse_name" \in DOMAIN fd
  /\ \/ "father_name" \in DOMAIN fd /\ fd["spouse_name"] = fd["father_name"]
     \/ "mother_name" \in DOMAIN fd /\ fd["spouse_name"] = fd["mother_name"]

\* C6: when the extracted spouse name equals the extracted father or mother name, the
\* record that parse_data returns has no spouse_name key
C6_NoSpouseEqualToAParent ==
  (Returned /\ SpouseIsAParent(fam_arg)) => "spouse_name" \notin DOMAIN result

\* the spouse was extracted, equal to the father, and the returned record keeps the father
C6_SpouseDropped ==
  /\ Returned /\ SpouseIsAParent(fam_arg)
  /\ "father_name" \in DOMAIN result
  /\ "spouse_name" \notin DOMAIN result

\* C7: _validate_family_names never raises, whatever combination of father, mother,
\* spouse and grandfather names it is given
C7_ValidationNeverRaises == fam_pc # "raised"

\* the ten sub-extractor outputs, merged in the order of the calls
MergeOfAll(txt) ==
  update(update(update(update(update(update(update(update(update(
    extract_basic_info(txt),
    extract_address_info(txt)),
    extract_bank_info(txt)),
    extract_occupation_info(txt)),
    extract_guardian_info(txt)),
    extract_minor_contact_info(txt)),
    extract_temporary_address_info(txt)),
    extract_financial_info(txt)),
    validate_family_names(extract_family_info(txt)).data),
    extract_money_laundering_info(txt))

\* C8: parse_data never lets an exception out; when a sub-extractor or the validator
\* raised it returns the empty record, and otherwise the merge of the ten outputs
C8_AllOrNothing ==
  /\ ~propagated
  /\ Returned =>
       IF errors > 0 THEN result = <<>>
       ELSE result = MergeOfAll(text)

\* the validator raised after other sub-extractors had filled the record
C8_FailedAfterMerging == Returned /\ errors > 0 /\ parsed_data # <<>> /\ result = <<>>

\* the captured value without every character other than digits, "-" and "/"
Stripped(raw) == keepChars(raw, Digit \cup {"-", "/"})

\* YYYY-MM-DD or YYYY/MM/DD
DateShaped(str) ==
  /\ Len(str) = 10
  /\ \A i \in {1, 2, 3, 4, 6, 7, 9, 10} : At(str, i) \in Digit
  /\ \A i \in {5, 8} : At(str, i) \in {"-", "/"}

Acceptable(str) ==
  /\ Len(str) >= 3
  /\ ~DateShaped(str)
  /\ SubSeq(str, 1, 2) \notin {"19", "20"}

\* C9: citizenship_no is recorded, with the stripped value, if and only if the stripped
\* value has length 3 or more, is not date-shaped and does not start with "19" or "20"
C9_CitizenshipValidation ==
  (cit_pc = "done" /\ cit_raw # <<>>) =>
    IF Acceptable(Stripped(cit_raw[1]))
    THEN cit_data = [citizenship_no |-> Stripped(cit_raw[1])]
    ELSE "citizenship_no" \notin DOMAIN cit_data

\* the date was given to the block and nothing was recorded
C9_DateRefused == cit_pc = "done" /\ cit_raw = <<"2024-05-01">> /\ cit_data = <<>>

\* C10: parse_data on the four-line personal text returns exactly name, date_of_birth,
\* gender and citizenship_no
C10_PersonalDocRecord ==
  (Returned /\ text = PersonalDoc) =>
    result = [name |-> "RAM KUMAR SHARMA", date_of_birth |-> "1990-05-12",
              gender |-> "Male", citizenship_no |-> "123456"]

\* C11: parse_data on the text with the label echoed before the value returns a record
\* whose occupation is "Student"
C11_EchoedLabelRecord ==
  (Returned /\ text = OccupationDoc) =>
    ("occupation" \in DOMAIN result /\ result["occupation"] = "Student")

\* what parse_data returns on a text when no other call is under way
parse_alone(txt) ==
  IF txt = "" THEN <<>>
  ELSE IF validate_family_names(extract_family_info(txt)).raised THEN <<>>
  ELSE MergeOfAll(txt)

\* C12: two calls of parse_data on the same text with the same DataParser return the
\* same record, and no call changes self.patterns
C12_SameTextSameRecord ==
  /\ self_patterns = catalog_keys
  /\ \A p, q \in Passes :
       (p_pc[p] = "done" /\ p_pc[q] = "done" /\ p_text[p] = p_text[q]) =>
         p_result[p] = p_result[q]

\* the second call began after the first had returned, on the same text, and both
\* returned a record with values in it
C12_CalledTwice ==
  /\ p_pc["a"] = "done" /\ p_pc["b"] = "done"
  /\ p_after["b"] /\ ~p_after["a"]
  /\ p_text["a"] = p_text["b"]
  /\ p_result["b"] # <<>>

\* C13: passes over different documents that share one DataParser, interleaved between
\* the statements of parse_data, each return the record they return when run alone
C13_InterleavedPassesAgreeWithAlone ==
  \A p \in Passes : p_pc[p] = "done" => p_result[p] = parse_alone(p_text[p])

\* two passes over different documents overlapped and returned different records
C13_Overlapped ==
  /\ p_pc["a"] = "done" /\ p_pc["b"] = "done"
  /\ ~p_after["a"] /\ ~p_after["b"]
  /\ p_text["a"] # p_text["b"]
  /\ p_result["a"] # <<>> /\ p_result["b"] # <<>> /\ p_result["a"] # p_result["b"]

\* the fields of each category of the catalogue
category_fields ==
  [current_address |-> {"country", "province", "district", "municipality", "ward_no", "tole",
                        "telephone", "mobile", "email"},
   permanent_address |-> {"country", "province", "district", "municipality", "ward_no", "tole",
                          "telephone", "block_no"},
   family_members |-> {"grandfather_name", "father_name", "mother_name", "spouse_name",
                       "son_name", "daughter_name", "daughter_in_law_name",
                       "father_in_law_name", "mother_in_law_name"},
   bank_details |-> {"account_type", "account_number", "bank_name"},
   occupation |-> {"occupation", "organization_name", "organization", "designation", "sector",
                   "address", "financial_details", "investment_involvement", "business_type"},
   money_laundering |-> {"politician_or_high_ranking_person",
                         "related_to_politician_or_high_ranking_official",
                         "have_a_beneficiary", "convicted_of_felony"},
   guardian_details |-> {"guardian_name", "guardian_relationship"},
   minor_contact |-> {"minor_telephone", "minor_mobile"},
   temporary_address |-> {"country", "province", "district", "municipality", "ward_no", "tole",
                          "telephone", "mobile", "email"},
   financial_details |-> {"income_limit", "annual_income"}]

\* the keys that the call of the statement st can put into parsed_data
emit_keys(st) ==
  CASE st = "call" -> reads("call")
    [] st = "address" -> {"current_" \o f : f \in category_fields.current_address}
                           \cup {"permanent_" \o f : f \in category_fields.permanent_address}
    [] st = "bank" -> {IF f = "bank_name" THEN "bank_name" ELSE "bank_" \o f :
                         f \in category_fields.bank_details}
    [] st = "occupation" -> category_fields.occupation
    [] st = "guardian" -> category_fields.guardian_details
    [] st = "minor" -> category_fields.minor_contact
    [] st = "temporary" -> {"temporary_" \o f : f \in category_fields.temporary_address}
    [] st = "financial" -> category_fields.financial_details
    [] st = "validate" -> category_fields.family_members
    [] st = "laundering" -> category_fields.money_laundering

\* the ten outputs merged in the opposite order
MergeReversed(txt) ==
  update(update(update(update(update(update(update(update(update(
    extract_money_laundering_info(txt),
    validate_family_names(extract_family_info(txt)).data),
    extract_financial_info(txt)),
    extract_temporary_address_info(txt)),
    extract_minor_contact_info(txt)),
    extract_guardian_info(txt)),
    extract_occupation_info(txt)),
    extract_bank_info(txt)),
    extract_address_info(txt)),
    extract_basic_info(txt))

\* C14: the key sets of the ten sub-extractors are pairwise disjoint, every sub-extractor
\* keeps to its key set, no parsed_data.update overwrites a key that is already there,
\* and the returned record is the same when the outputs are merged in the opposite order
C14_KeysNeverCollide ==
  /\ \A s, t \in merging : s # t => emit_keys(s) \cap emit_keys(t) = {}
  /\ (pc \in merging /\ text # "") =>
       Let(DOMAIN sub_output(pc, text, fam_arg).data,
           LAMBDA keys : keys \subseteq emit_keys(pc) /\ keys \cap DOMAIN parsed_data = {})
  /\ (Returned /\ errors = 0 /\ text # "") => result = MergeReversed(text)

\* a sub-extractor output with keys in it is about to be merged into a record that has keys
C14_MergeIntoFilledRecord ==
  /\ pc \in merging /\ parsed_data # <<>>
  /\ sub_output(pc, text, fam_arg).data # <<>>

\* C15: on the empty text parse_data returns the empty record at once: no statement of
\* the try block runs, nothing is merged, and no error is reported
C15_EmptyTextReturnsAtOnce ==
  text = "" =>
    /\ pc \in {"call", "done"}
    /\ parsed_data = <<>> /\ fam_arg = <<>>
    /\ Returned => (result = <<>> /\ errors = 0 /\ warnings = 0)

\* the call on the empty text has returned
C15_EmptyTextReturned == Returned /\ text = "" /\ result = <<>>

\* father_name and grandfather_name are both there and equal
FatherIsGrandfather(fd) ==
  /\ "father_name" \in DOMAIN fd /\ "grandfather_name" \in DOMAIN fd
  /\ fd["father_name"] = fd["grandfather_name"]

\* C16: when father_name equals grandfather_name, _validate_family_names warns once and
\* hands back a record that still holds both names
C16_WarnsAndKeepsBoth ==
  (FatherIsGrandfather(family_data) /\ fam_pc # "warn_check") =>
    (fam_warned = 1 /\ fam_pc # "raised")

\* the same, for the calls that do not end in the KeyError of the second spouse check
C16_WarnsAndKeepsBothUnlessKeyError ==
  (FatherIsGrandfather(family_data) /\ fam_pc \notin {"warn_check", "raised"}) => fam_warned = 1

\* the keys of the record that hold a personal name
NameKeys == {"name"} \cup category_fields.family_members

\* C17: every personal name of the returned record is upper-cased and has every run of
\* whitespace collapsed to one space
C17_NamesUpperAndCollapsed ==
  Returned =>
    \A key \in DOMAIN result \cap NameKeys :
      result[key] = upper(result[key]) /\ result[key] = collapseSpace(result[key])

\* C18: no personal name of the returned record is the label word(s) of its own field or
\* one of the junk tokens
C18_NoLabelOrJunkName ==
  Returned =>
    \A key \in DOMAIN result \cap NameKeys :
      result[key] # label_words(key) /\ result[key] \notin junk_names

\* the upper-casing half of C17 alone
NamesUpper == Returned => \A key \in DOMAIN result \cap NameKeys : result[key] = upper(result[key])

\* C18 for the family-relation names alone
NoLabelOrJunkRelation ==
  Returned =>
    \A key \in DOMAIN result \cap category_fields.family_members :
      result[key] # label_words(key) /\ result[key] \notin junk_names

\* the label words of the address sub-fields that follow a sub-field on the form
following_labels(field) ==
  CASE field = "country" -> {"Province", "District"}
    [] field = "province" -> {"District", "Municipality"}
    [] field = "district" -> {"Municipality", "Ward"}
    [] field = "municipality" -> {"Ward", "Tole"}
    [] OTHER -> {}

\* the value holds none of the labels that follow its sub-field, and neither begins nor
\* ends with a colon or whitespace
Truncated(field, value) ==
  /\ \A word \in following_labels(field) : ~contains(value, word)
  /\ value = stripChars(value, Space \cup {":"})

\* C19: for every address category, a country or province value of the returned record
\* holds no label word of a following sub-field and no colon or whitespace at its ends
C19_AddressValuesTruncated ==
  Returned =>
    \A category \in {"current", "permanent", "temporary"}, field \in {"country", "province"} :
      (category \o "_" \o field) \in DOMAIN result =>
        Truncated(field, result[category \o "_" \o field])

\* C19 for the permanent address alone
PermanentValuesTruncated ==
  Returned =>
    \A field \in {"country", "province"} :
      ("permanent_" \o field) \in DOMAIN result => Truncated(field, result["permanent_" \o field])

\* what the occupation loop keeps of a field before the fallback: the value of the field
\* after the loop of _extract_occupation_info, << >> when it was discarded or not found
survives(txt, field) ==
  Let(occupation_field(<<>>, txt, field),
      LAMBDA data : IF field \in DOMAIN data THEN <<data[field]>> ELSE <<>>)

\* C20: the occupation of the record is never the label word "occupation" or a layout
\* artifact, in any letter case; and when no occupation value survives the check but a
\* sector value does, the occupation of the record is the sector value
C20_OccupationNeverLabelAndFallsBackToSector ==
  Returned =>
    /\ "occupation" \in DOMAIN result => lower(result["occupation"]) \notin layout_artifacts
    /\ ("sector" \in DOMAIN result /\ survives(text, "occupation") = <<>>) =>
         ("occupation" \in DOMAIN result /\ result["occupation"] = result["sector"])

\* no occupation value was found, and the record's occupation is its sector
C20_FellBackToSector ==
  /\ Returned /\ survives(text, "occupation") = <<>>
  /\ "sector" \in DOMAIN result /\ "occupation" \in DOMAIN result
  /\ result["occupation"] = result["sector"]

\* an occupation candidate was found and discarded as the echoed label, and so was the sector
C20_LabelDiscarded ==
  /\ Returned /\ text = "Occupation: Permanent"
  /\ "occupation" \notin DOMAIN result /\ "sector" \notin DOMAIN result

\* ---- C21
\* C21: every key of the money-laundering questionnaire that the returned record holds has
\* the value "Yes" or the value "No", whatever the casing of the answer in the text.
C21_AnswersAreYesOrNo ==
  Returned =>
    \A key \in DOMAIN result \cap category_fields.money_laundering : result[key] \in {"Yes", "No"}

\* ---- C22
\* C22: a captured gender that is "M" or "Male" in any casing is recorded as "Male", one
\* that is "F" or "Female" in any casing as "Female", and any other captured value is
\* recorded trimmed and otherwise unchanged; without a capture no gender is recorded.
C22_GenderNormalized ==
  gen_pc = "done" =>
    IF gen_raw = <<>> THEN "gender" \notin DOMAIN gen_data
    ELSE /\ "gender" \in DOMAIN gen_data
         /\ gen_data["gender"] =
              (IF lower(gen_raw[1]) \in {"m", "male"} THEN "Male"
               ELSE IF lower(gen_raw[1]) \in {"f", "female"} THEN "Female"
               ELSE strip(gen_raw[1]))

\* a lower-case letter or word was recorded as its canonical label
C22_LowerCaseNormalized ==
  /\ gen_pc = "done" /\ gen_raw # <<>>
  /\ gen_raw[1] \in {"m", "male", "feMale"}
  /\ gen_data["gender"] \in {"Male", "Female"}

\* a value that is neither form was recorded as it was captured
C22_OtherPassedThrough ==
  /\ gen_pc = "done" /\ gen_raw = <<"Other">>
  /\ gen_data["gender"] = "Other"

\* ---- C23
\* the fields of the model whose value is checked after _extract_field returned it, with
\* their rule lists
checked_rules ==
  [f \in {"citizenship_no"} \cup Range(family_members_list) |->
     IF f = "citizenship_no" THEN citizenship_no_rules ELSE family_members_patterns[f]]

\* the check of the field on a capture
passes_check(field, capture) ==
  IF field = "citizenship_no" THEN citizenship_ok(citizenship_clean(capture))
  ELSE upper(strip(capture)) \notin junk_names \cup {label_words(field)}

\* what rule k of the field alone captures from the text of the call
capture_of(field, k) ==
  Let(TryPattern(checked_rules[field][k], text, strictFlags),
      LAMBDA t : IF t.o = "return" THEN <<t.v>> ELSE <<>>)

good_rules(field) == {k \in 1..Len(checked_rules[field]) : capture_of(field, k) # <<>>}

\* the first rule with a capture that is neither empty nor "-" has one that fails the check
first_capture_rejected(field) ==
  /\ good_rules(field) # {}
  /\ ~passes_check(field, capture_of(field, LeastOf(good_rules(field)))[1])

\* C23: when the capture of the first rule that has one (non-empty and not "-") fails the
\* field's check, the returned record does not hold the field, whatever the later rules
\* of the field would capture.
C23_RejectedFirstCaptureOmitsField ==
  Returned =>
    \A field \in DOMAIN checked_rules : first_capture_rejected(field) => field \notin DOMAIN result

\* parse_data returned a record of other keys without the field, and a later rule of the
\* field has a capture that passes the check
C23_LaterRuleWouldPass ==
  /\ Returned /\ result # <<>>
  /\ \E field \in DOMAIN checked_rules :
       /\ first_capture_rejected(field)
       /\ \E k \in good_rules(field) :
            k > LeastOf(good_rules(field)) /\ passes_check(field, capture_of(field, k)[1])
       /\ field \notin DOMAIN result

\* ---- C24
\* the numbers of a view grow from left to right
Ascending(section) == \A j, k \in 1..Len(section) : j < k => section[j] < section[k]

\* C24: after every line the current-address capture and the permanent-address capture
\* are not both open, no line is in both views or twice in one, each view holds only lines
\* the loop has passed, and each view lists its lines in the order of the document.
C24_CapturesExcludeAndViewsInOrder ==
  /\ ~(in_current /\ in_permanent)
  /\ Range(current_section) \cap Range(permanent_section) = {}
  /\ Ascending(current_section) /\ Ascending(permanent_section)
  /\ \A n \in Range(current_section) \cup Range(permanent_section) : n < seg_i

\* the split is over and each view holds two lines or more
C24_BothViewsFilled ==
  /\ seg_i > Len(text_lines)
  /\ Len(current_section) >= 2 /\ Len(permanent_section) >= 2

\* ---- C25
\* the line opens the current-address capture, or the permanent-address capture
OpensCurrent(line) ==
  contains(lower(line), "current address") /\ ~contains(lower(line), "permanent")

OpensPermanent(line) == ~OpensCurrent(line) /\ contains(lower(line), "permanent address")

Opens(view, line) == IF view = "current" THEN OpensCurrent(line) ELSE OpensPermanent(line)

ViewOf(view) == IF view = "current" THEN current_section ELSE permanent_section

OpenNow(view) == IF view = "current" THEN in_current ELSE in_permanent

NextSectionKeywords(view) ==
  IF view = "current" THEN {"permanent", "temporary", "family", "bank", "occupation"}
  ELSE {"temporary", "family", "bank", "occupation"}

HasKeyword(view, line) == \E keyword \in NextSectionKeywords(view) : contains(lower(line), keyword)

\* line m was taken into the view while its capture was open, is no section marker, and
\* holds a next-section keyword of the view
ClosedAt(view, m) ==
  /\ m \in Range(ViewOf(view))
  /\ ~OpensCurrent(text_lines[m]) /\ ~OpensPermanent(text_lines[m])
  /\ HasKeyword(view, text_lines[m])

\* C25: once a line that is no section marker and holds a next-section keyword is seen
\* while a capture is open, the capture is closed, and no later line is appended to that
\* view until a line with the view's own section marker comes.
C25_ClosedUntilOwnMarker ==
  \A view \in {"current", "permanent"} :
    \A m \in 1..(seg_i - 1) :
      ClosedAt(view, m) =>
        /\ (\A k \in (m + 1)..(seg_i - 1) : ~Opens(view, text_lines[k])) => ~OpenNow(view)
        /\ \A n \in (m + 1)..(seg_i - 1) :
             n \in Range(ViewOf(view)) => \E k \in (m + 1)..n : Opens(view, text_lines[k])

\* a keyword closed the current-address capture, the lines after it stayed out of the view,
\* and a later marker opened it again
C25_ClosedThenReopened ==
  /\ seg_i > Len(text_lines)
  /\ \E m \in 1..Len(text_lines) :
       /\ ClosedAt("current", m)
       /\ m + 1 \notin Range(current_section) /\ m + 1 <= Len(text_lines)
       /\ ~OpensPermanent(text_lines[m + 1])
       /\ \E k \in (m + 2)..Len(text_lines) : k \in Range(current_section)

\* ---- C29
\* C29: the line whose keyword closes an open capture is appended to that view and is its
\* last line when the capture closes; a section-marker line is appended to the view it
\* opens and to no other, and leaves that view's capture open whatever keywords it holds.
C29_ClosingLineKeptAndMarkerOpens ==
  [][seg_i <= Len(text_lines) =>
       /\ \A view \in {"current", "permanent"} :
            /\ (/\ OpenNow(view)
                /\ ~OpensCurrent(text_lines[seg_i]) /\ ~OpensPermanent(text_lines[seg_i])
                /\ HasKeyword(view, text_lines[seg_i]))
                 => /\ (IF view = "current" THEN current_section' ELSE permanent_section')
                          = Append(ViewOf(view), seg_i)
                    /\ ~(IF view = "current" THEN in_current' ELSE in_permanent')
            /\ Opens(view, text_lines[seg_i])
                 => /\ (IF view = "current" THEN current_section' ELSE permanent_section')
                          = Append(ViewOf(view), seg_i)
                    /\ (IF view = "current" THEN in_current' ELSE in_permanent')
       /\ OpensCurrent(text_lines[seg_i]) => permanent_section' = permanent_section
       /\ OpensPermanent(text_lines[seg_i]) => current_section' = current_section]_vars

\* the current-address view ends with the line "Permanent Residence" that closed it, and a
\* marker that holds the keyword "bank" has left the capture open
C29_ViewEndsWithClosingLine ==
  /\ seg_i > Len(text_lines)
  /\ current_section # <<>>
  /\ text_lines[current_section[Len(current_section)]] = "Permanent Residence"
  /\ ~in_current
  /\ \E k \in 1..Len(current_section) :
       /\ text_lines[current_section[k]] = "Current Address Bank"
       /\ k < Len(current_section) /\ current_section[k + 1] = current_section[k] + 1
       /\ ~OpensCurrent(text_lines[current_section[k + 1]])

\* ---- C27
\* what the ten sub-extractors produced for the text, merged in the order of the calls,
\* the family names as _extract_family_info gave them
ProducedBySubExtractors(txt) ==
  update(update(update(update(update(update(update(update(update(
    extract_basic_info(txt),
    extract_address_info(txt)),
    extract_bank_info(txt)),
    extract_occupation_info(txt)),
    extract_guardian_info(txt)),
    extract_minor_contact_info(txt)),
    extract_temporary_address_info(txt)),
    extract_financial_info(txt)),
    extract_family_info(txt)),
    extract_money_laundering_info(txt))

SpouseIsFather(fd) ==
  /\ "spouse_name" \in DOMAIN fd /\ "father_name" \in DOMAIN fd
  /\ fd["spouse_name"] = fd["father_name"]

\* every key but spouse_name that the sub-extractors produced is in the returned record,
\* with the value they produced
OthersKept ==
  \A key \in DOMAIN ProducedBySubExtractors(text) \ {"spouse_name"} :
    key \in DOMAIN result /\ result[key] = ProducedBySubExtractors(text)[key]

\* C27: whenever the extracted spouse name equals the extracted father name, with or
\* without a mother name, every other key that the sub-extractors produced is in the
\* record that parse_data returns, with the same value.
C27_OnlySpouseDropped == (Returned /\ SpouseIsFather(fam_arg)) => OthersKept

\* the same, for the texts without a mother name
C27_OnlySpouseDroppedWithoutMother ==
  (Returned /\ SpouseIsFather(fam_arg) /\ "mother_name" \notin DOMAIN fam_arg) => OthersKept

\* a spouse equal to the father was dropped next to a key of another sub-extractor
C27_DroppedNextToOtherKeys ==
  /\ Returned /\ SpouseIsFather(fam_arg) /\ "mother_name" \notin DOMAIN fam_arg
  /\ "gender" \in DOMAIN result /\ "father_name" \in DOMAIN result
  /\ "spouse_name" \notin DOMAIN result

\* ---- C28
\* the questionnaire's keys and the yes and no checkbox of each
QuestionBoxes ==
  [politician_or_high_ranking_person |-> {"Rajniti/padh yes", "Rajniti/padh no"},
   related_to_politician_or_high_ranking_official |->
     {"Rajniti/padh sambandha yes", "Rajniti/padh sambandha no"},
   have_a_beneficiary |-> {"hitadhikari yes", "hitadhikari no"},
   convicted_of_felony |-> {"Dosh yes", "Dosh no"}]

FillReturned == fu_pc = "done"

\* the returned updates hold both checkboxes of every questionnaire key of the record
PairsEmitted ==
  \A key \in DOMAIN QuestionBoxes \cap DOMAIN fu_parsed_data :
    QuestionBoxes[key] \subseteq DOMAIN field_updates

\* C28: whenever the record has a key of the money-laundering questionnaire, the updates
\* that _prepare_field_updates returns hold the yes and the no checkbox of that key,
\* whichever other keys the record has.
C28_QuestionnairePairsEmitted == FillReturned => PairsEmitted

\* the same, for the records that hold income_limit
C28_PairsEmittedWithIncomeLimit ==
  (FillReturned /\ "income_limit" \in DOMAIN fu_parsed_data) => PairsEmitted

\* a record with income_limit and a questionnaire key got that key's two checkboxes
C28_PairEmitted ==
  /\ FillReturned /\ "income_limit" \in DOMAIN fu_parsed_data
  /\ "have_a_beneficiary" \in DOMAIN fu_parsed_data
  /\ "hitadhikari yes" \in DOMAIN field_updates /\ "hitadhikari no" \in DOMAIN field_updates

\* ---- C30
\* the groups of checkboxes of which the form allows one
ExclusiveGroups ==
  {{"MaleCheck", "FemaleCheck"}, {"Saving Account", "Current Account"},
   {"Upto 5,00,000", "From Rs. 5,00,001 to Rs. 10,00,000", "Above Rs. 10,00,000"},
   {"Manufacturing", "Check", "Check Box12"}}
    \cup {QuestionBoxes[key] : key \in DOMAIN QuestionBoxes}

Ticked(group) == {field \in group \cap DOMAIN field_updates : field_updates[field] = "Yes"}

\* C30: the field updates never hold 'Yes' for two checkboxes of one exclusive group: the
\* gender pair, the account pair, the three income-limit boxes, each yes/no pair of the
\* questionnaire, and the three business-type boxes.
C30_OneTickPerGroup == \A group \in ExclusiveGroups : Cardinality(Ticked(group)) <= 1

\* an income limit that names two of the ranges ticked the first and cleared the others,
\* next to a ticked questionnaire box
C30_TwoRangesOneTick ==
  /\ FillReturned
  /\ "income_limit" \in DOMAIN fu_parsed_data
  /\ fu_parsed_data["income_limit"] = "Upto 5,00,000 Above Rs. 10,00,000"
  /\ field_updates["Upto 5,00,000"] = "Yes" /\ field_updates["Above Rs. 10,00,000"] = "Off"
  /\ \E key \in DOMAIN QuestionBoxes : Ticked(QuestionBoxes[key]) # {}

\* ---- C26
\* the document has text, its record is not empty, the template was filled for it, and
\* nothing raised
Succeeds(doc) ==
  /\ strip(doc.text) # ""
  /\ data_parser[doc.text] # <<>>
  /\ doc.fault = "none"

\* the number of documents whose iteration is over, and of those whose iteration has begun
Finished == IF b_pc = "progress" THEN b_i ELSE b_i - 1

Started == IF b_pc \in {"extract", "done"} THEN b_i - 1 ELSE b_i

\* the positions 1..n that satisfy Test, in order
Positions(n, Test(_)) == SelectSeq([j \in 1..n |-> j], Test)

\* the loop has taken up the documents one by one in upload order; processed_files holds,
\* in that order, the finished documents that succeeded, each with its record; the
\* finished documents that did not were each reported once
BatchInOrder ==
  /\ status_log = [j \in 1..Started |-> j]
  /\ [k \in 1..Len(processed_files) |-> processed_files[k].original_name]
       = Positions(Finished, LAMBDA j : Succeeds(source_files[j]))
  /\ \A k \in 1..Len(processed_files) :
       processed_files[k].parsed_data = data_parser[source_files[processed_files[k].original_name].text]
  /\ error_log = Positions(Finished, LAMBDA j : ~Succeeds(source_files[j]))

\* C26: the batch loop takes up every uploaded document in upload order whatever became
\* of the earlier ones; a document without text, with an empty record, with a failed
\* template fill or with an exception is reported and is not added to processed_files,
\* and the loop goes on; the loop ends, and processed_files then holds exactly the
\* documents that gave a non-empty record and a filled PDF.
C26_EveryDocumentInOrder ==
  /\ [](BatchInOrder /\ (b_pc = "done" => Finished = Len(source_files)))
  /\ <>(b_pc = "done")

\* the loop is over: the first document failed and was reported, the second was processed
C26_ProcessedAfterFailure ==
  /\ b_pc = "done" /\ Len(source_files) = 2
  /\ error_log = <<1>>
  /\ Len(processed_files) = 1 /\ processed_files[1].original_name = 2

====
